---- MODULE Spec2Model ----
(***************************************************************************)
(* Verification model of the statistical-learning core of csblast:         *)
(*   - the EM driver for context libraries (src/src/clustering-inl.h),     *)
(*   - the library / CRF likelihood functions and the CRF gradient         *)
(*     evaluator (src/src/func.h).                                         *)
(*                                                                         *)
(* Numbers.  float/double values are modelled by exact extended rationals  *)
(* <<n, d>> with d >= 0 in lowest terms; d = 0 encodes the IEEE specials   *)
(* <<1,0>> = +inf, <<-1,0>> = -inf, <<0,0>> = NaN.  Rounding is not        *)
(* modelled.  A value kept in log2-space is the record [lg |-> r], which   *)
(* stands for log2(r); [lg |-> 0] is -inf.  A value kept in ln-space (CRF  *)
(* weights) is the record [ln |-> r], which stands for ln(r).              *)
(***************************************************************************)
EXTENDS Integers, Sequences, FiniteSets, TLC

\* ------------------------------------------------------------------------
\* Model sizes
\* ------------------------------------------------------------------------
NumProfiles == 2      \* K: number of library components / CRF states
AlphabetSize == 2     \* A: number of ordinary letters; the 'any' symbol is A
Center == 1           \* index of the central column; num_cols = 2*Center + 1
NumData == 2          \* N: number of training items in the corpus
MaxIterations == 2    \* EM iterations (E-step + M-step) explored
MaxMagnitude == 30000 \* largest numerator / denominator explored

NumCols == 2 * Center + 1
Profiles == 0 .. (NumProfiles - 1)
Cols == 0 .. (NumCols - 1)
Letters == 0 .. (AlphabetSize - 1)
kAny == AlphabetSize

\* ------------------------------------------------------------------------
\* Extended rational arithmetic
\* ------------------------------------------------------------------------
Abs(x) == IF x < 0 THEN -x ELSE x

Sign(x) == IF x < 0 THEN -1 ELSE IF x > 0 THEN 1 ELSE 0

RECURSIVE GCD(_, _)
GCD(a, b) == IF b = 0 THEN a ELSE GCD(b, a % b)

Zero == <<0, 1>>
One == <<1, 1>>
NaN == <<0, 0>>
PosInf == <<1, 0>>
NegInf == <<-1, 0>>
Int2R(i) == <<i, 1>>

\* A value whose numerator or denominator left the explored range.  It is
\* absorbing, and no action steps to a state that holds it (see Fits).
Huge == <<0, -1>>

InRange(x) == x # Huge /\ Abs(x[1]) <= MaxMagnitude /\ x[2] <= MaxMagnitude

Norm(n, d) ==
  IF d = 0 THEN <<Sign(n), 0>>
  ELSE LET g == GCD(Abs(n), Abs(d))
           s == IF d < 0 THEN -1 ELSE 1
       IN  <<(s * n) \div g, (s * d) \div g>>

IsFinite(x) == x[2] > 0

\* x + y; the common factor of the denominators is divided out first
RAdd(x, y) ==
  IF ~InRange(x) \/ ~InRange(y) THEN Huge
  ELSE IF x[2] = 0 /\ y[2] = 0 THEN (IF x = y THEN x ELSE NaN)
  ELSE IF x[2] = 0 THEN x
  ELSE IF y[2] = 0 THEN y
  ELSE LET g == GCD(x[2], y[2])
       IN  Norm(x[1] * (y[2] \div g) + y[1] * (x[2] \div g),
                (x[2] \div g) * y[2])

RNeg(x) == IF x = Huge THEN Huge ELSE <<-x[1], x[2]>>

RSub(x, y) == RAdd(x, RNeg(y))

\* x * y; common factors are divided out crosswise first
RMul(x, y) ==
  IF ~InRange(x) \/ ~InRange(y) THEN Huge
  ELSE IF x[2] = 0 \/ y[2] = 0 THEN <<Sign(x[1]) * Sign(y[1]), 0>>
  ELSE LET g1 == GCD(Abs(x[1]), y[2])
           g2 == GCD(Abs(y[1]), x[2])
       IN  Norm((x[1] \div g1) * (y[1] \div g2),
                (x[2] \div g2) * (y[2] \div g1))

RInv(x) ==
  IF x = Huge THEN Huge
  ELSE IF x[1] < 0 THEN <<-x[2], -x[1]>>
  ELSE Norm(x[2], x[1])

RDiv(x, y) == RMul(x, RInv(y))

RLess(x, y) == IsFinite(x) /\ IsFinite(y) /\ x[1] * y[2] < y[1] * x[2]

RECURSIVE RPow(_, _)
RPow(x, m) == IF m = 0 THEN One ELSE RMul(x, RPow(x, m - 1))

\* sum of f[0] + ... + f[n-1], accumulated in index order as the loops do
RECURSIVE RSumTo(_, _)
RSumTo(f, n) == IF n = 0 THEN Zero ELSE RAdd(RSumTo(f, n - 1), f[n - 1])

\* ------------------------------------------------------------------------
\* log2-space values
\* ------------------------------------------------------------------------
Log2(r) == [lg |-> r]

Pow2(v) == v.lg

LgZero == Log2(One)

\* v + w for two log2-space values
LgAdd(v, w) == Log2(RMul(v.lg, w.lg))

\* c * v for a count c (a non-negative integer) and a log2-space value v;
\* 0 * (+-inf) is NaN as in IEEE arithmetic
LgScale(c, v) ==
  IF c = 0
  THEN (IF v.lg = Huge THEN Log2(Huge)
        ELSE IF IsFinite(v.lg) /\ v.lg # Zero THEN LgZero ELSE Log2(NaN))
  ELSE Log2(RPow(v.lg, c))

RECURSIVE LgSumTo(_, _)
LgSumTo(f, n) == IF n = 0 THEN LgZero ELSE LgAdd(LgSumTo(f, n - 1), f[n - 1])

\* ------------------------------------------------------------------------
\* State
\* ------------------------------------------------------------------------
VARIABLES
  em_pc,                 \* position of the EM driver / Clustering handlers
  data_,                 \* the training corpus (count-profile windows)
  lib_,                  \* the profile library being trained
  profile_stats_,        \* global sufficient statistics, one per component
  profile_stats_block_,  \* block-level sufficient statistics
  epsilon_,              \* learning-rate parameter of the current scan
  log_likelihood_,       \* the values whose log2 / num_eff_cols_ were added
  block,                 \* [beg, end) of the block handed to ExpectationStep
  bi,                    \* index of the next training item of the block
  p_zn,                  \* posteriors of the last training item
  sum_zn                 \* normaliser 'sum' of the last training item

emVars == <<em_pc, data_, lib_, profile_stats_, profile_stats_block_,
            epsilon_, log_likelihood_, block, bi, p_zn, sum_zn>>

VARIABLES
  lf,                    \* ContextLibFunc::operator(): its position and locals
  cf,                    \* CrfFunc::operator(): its position and locals
  crf_,                  \* the CRF handed to CrfFunc / held in DerivCrfFuncIO
  df_pc,                 \* position of DerivCrfFunc::df
  df,                    \* locals of DerivCrfFunc::df (block, mpp, mpa, loglike)
  s_io,                  \* DerivCrfFuncIO: loglike, prior, grad_loglike, grad_prior
  wk                     \* workers of the parallel loop over states

funcVars == <<lf, cf, crf_, df_pc, df, s_io, wk>>

VARIABLES
  gb,      \* a caller of GetBlock / CalculatePriorGradient over all blocks
  pm,      \* a ProfileMatcher: construction and one emission score
  sq,      \* the E-step accumulation of a Clustering over sequences
  io       \* a stream and the object read from or written to it

VARIABLES
  lb,      \* a ProfileLibrary: its components and flags
  cp,      \* a profile under conversions and transforms
  sp,      \* shared_ptr objects, counters and pointees
  al,      \* an Alignment under construction
  fw       \* ForwardBackwardMatrices and the forward algorithm

moreVars == <<lb, cp, sp, al, fw>>

auxVars == <<gb, pm, sq, io, moreVars>>

MoreOff ==
  /\ lb = [pc |-> "off"]
  /\ cp = [pc |-> "off"]
  /\ sp = [pc |-> "off"]
  /\ al = [pc |-> "off"]
  /\ fw = [pc |-> "off"]

AuxOff ==
  /\ gb = [pc |-> "off"]
  /\ pm = [pc |-> "off"]
  /\ sq = [pc |-> "off"]
  /\ io = [pc |-> "off"]
  /\ MoreOff

vars == <<emVars, funcVars, auxVars>>

\* ------------------------------------------------------------------------
\* Profiles, count profiles, positional weights
\* ------------------------------------------------------------------------
OneHot(l) == [a \in Letters |-> IF a = l THEN 1 ELSE 0]

\* A ContextProfile(k, num_cols): every entry and the prior are zero.
NewContextProfile ==
  [prior |-> Zero, prof |-> [j \in Cols |-> [a \in Letters |-> Zero]]]

\* Reset(&profile): prior and all entries back to zero.
Reset(p) ==
  [prior |-> Zero, prof |-> [j \in Cols |-> [a \in Letters |-> Zero]]]

\* Positional window weights of the emission; the model uses
\* weight_center = 2^center and weight_decay = 1/2, so that every weight is
\* an integer and 2^score stays rational.
RECURSIVE IPow2(_)
IPow2(i) == IF i = 0 THEN 1 ELSE 2 * IPow2(i - 1)

weights_ == [j \in Cols |-> IPow2(Center - Abs(j - Center))]

SumWeights == LET RECURSIVE S(_)
                  S(n) == IF n = 0 THEN 0 ELSE S(n - 1) + weights_[n - 1]
              IN  S(NumCols)

\* emission_(profile, counts, index): the log2 emission score of the window
\* of 'counts' centred at 'index' against a log-space context profile.
Emission(profile, counts, len, index) ==
  LET beg == IF index - Center > 0 THEN index - Center ELSE 0
      end == IF len - 1 < index + Center THEN len - 1 ELSE index + Center
      colsum(i) ==
        LET j == i - index + Center
        IN  LgSumTo([a \in Letters |-> LgScale(counts[i][a], profile[j][a])],
                    AlphabetSize)
      RECURSIVE rv(_)
      rv(i) == IF i < beg THEN LgZero
               ELSE LgAdd(rv(i - 1),
                          LgScale(weights_[i - index + Center], colsum(i)))
  IN  rv(end)

\* Normalize(&profile): scales every column with a non-zero sum to 'value'
\* and reports whether every column could be normalised.
NormalizeCol(col, value) ==
  LET sum == RSumTo(col, AlphabetSize)
  IN  IF sum # Zero
      THEN [a \in Letters |-> RMul(col[a], RDiv(value, sum))]
      ELSE col

Normalize(prof, value) ==
  [ok   |-> \A j \in Cols : RSumTo(prof[j], AlphabetSize) # Zero,
   prof |-> [j \in Cols |-> NormalizeCol(prof[j], value)]]

\* profile.TransformToLogSpace()
TransformToLogSpace(prof) ==
  [j \in Cols |-> [a \in Letters |-> Log2(prof[j][a])]]

\* ------------------------------------------------------------------------
\* Training corpora and initial libraries
\* ------------------------------------------------------------------------
\* Every training item is the same window, all mass on one letter per column.
SameWindow == [j \in Cols |-> OneHot(j % AlphabetSize)]

CorpusSame == [n \in 0 .. (NumData - 1) |-> SameWindow]

\* Item n has its mass on letter (n + j) mod A in column j; the last item
\* of the corpus carries one count on every letter of its first column.
CorpusMixed ==
  [n \in 0 .. (NumData - 1) |->
     [j \in Cols |->
        IF n = NumData - 1 /\ j = 0 /\ NumData > 1
        THEN [a \in Letters |-> 1]
        ELSE OneHot((n + j) % AlphabetSize)]]

Corpora == {CorpusSame, CorpusMixed}

\* Components as add_profile stores them: prior 1 / num_profiles.
LibUniform ==
  [k \in Profiles |->
     [prior |-> <<1, NumProfiles>>,
      prof  |-> [j \in Cols |-> [a \in Letters |-> Log2(<<1, AlphabetSize>>)]]]]

\* Component k prefers letter (k + j) mod A in column j with twice the
\* probability of any other letter.
LibSkewed ==
  [k \in Profiles |->
     [prior |-> <<1, NumProfiles>>,
      prof  |-> [j \in Cols |-> [a \in Letters |->
                   Log2(Norm(IF a = (k + j) % AlphabetSize THEN 2 ELSE 1,
                             AlphabetSize + 1))]]]]

\* A library as read from a file with '*' entries: the first column of
\* every component from 'first' on has all its mass on letter 0, the other
\* columns are uniform.
LibSparseFrom(first) ==
  [k \in Profiles |->
     [prior |-> <<1, NumProfiles>>,
      prof  |-> [j \in Cols |-> [a \in Letters |->
                   IF k >= first /\ j = 0
                   THEN Log2(Int2R(OneHot(0)[a]))
                   ELSE Log2(<<1, AlphabetSize>>)]]]]

Libraries == {LibUniform, LibSkewed, LibSparseFrom(0), LibSparseFrom(1)}

\* Values of epsilon_ handed down by the EM driver (1 = batch mode).
Epsilons == {<<1, 1>>, <<1, 2>>}

Blocks == {b \in (0 .. NumData) \X (0 .. NumData) : b[1] < b[2]}

\* ------------------------------------------------------------------------
\* Clustering
\* ------------------------------------------------------------------------
\* every number of a profile (prior and entries) is in the explored range
Fits(p) ==
  /\ p.prior # Huge
  /\ \A j \in Cols, a \in Letters : p.prof[j][a] # Huge

\* the same for a profile kept in log-space
FitsLog(p) ==
  /\ p.prior # Huge
  /\ \A j \in Cols, a \in Letters : Pow2(p.prof[j][a]) # Huge

\* Clustering::Init
ClusteringInit ==
  /\ profile_stats_ = [k \in Profiles |-> NewContextProfile]
  /\ profile_stats_block_ = [k \in Profiles |-> NewContextProfile]

InitEM ==
  /\ em_pc = "idle"
  /\ data_ \in Corpora
  /\ lib_ \in [comp : Libraries, iterations : {0}]
  /\ ClusteringInit
  /\ epsilon_ = One
  /\ log_likelihood_ = <<>>
  /\ block = <<0, 0>>
  /\ bi = 0
  /\ p_zn = [k \in Profiles |-> Zero]
  /\ sum_zn = Zero

\* The driver hands a block of the corpus to ExpectationStep: entry of
\* Clustering::ExpectationStep.
ExpectationStepBegin(b, eps) ==
  /\ em_pc = "idle"
  /\ lib_.iterations < MaxIterations
  /\ em_pc' = "estep"
  /\ block' = b
  /\ bi' = b[1]
  /\ epsilon_' = eps
  /\ log_likelihood_' = <<>>
  /\ p_zn' = [k \in Profiles |-> Zero]
  /\ sum_zn' = Zero
  /\ UNCHANGED <<auxVars, funcVars, data_, lib_, profile_stats_, profile_stats_block_>>

\* unnormalised posteriors of one training item
Unnormalized(lib, c) ==
  [k \in Profiles |->
     RMul(lib[k].prior, Pow2(Emission(lib[k].prof, c, NumCols, Center)))]

\* p_zn /= sum
DivideBy(pz, sum) == [k \in Profiles |-> RDiv(pz[k], sum)]

\* add_contribution_to_priors adding the posterior of component 0 to every
\* component
add_contribution_to_priors_first(stats, pz) ==
  [k \in Profiles |-> [stats[k] EXCEPT !.prior = RAdd(stats[k].prior, pz[0])]]

\* Clustering::add_contribution_to_priors
add_contribution_to_priors(stats, pz) ==
  [k \in Profiles |-> [stats[k] EXCEPT !.prior = RAdd(stats[k].prior, pz[k])]]

\* Clustering::add_contribution_to_emissions (count profile)
add_contribution_to_emissions(stats, pz, c) ==
  [k \in Profiles |->
     [stats[k] EXCEPT !.prof =
        [j \in Cols |-> [a \in Letters |->
           RAdd(stats[k].prof[j][a], RMul(Int2R(c[j][a]), pz[k]))]]]]

\* One pass of the loop over the training items of the block.
ExpectationStepItem ==
  /\ em_pc = "estep"
  /\ bi < block[2]
  /\ LET c   == data_[bi]
         un  == Unnormalized(lib_.comp, c)
         sum == RSumTo(un, NumProfiles)
         pz  == DivideBy(un, sum)
     IN  /\ p_zn' = pz
         /\ sum_zn' = sum
         /\ profile_stats_block_' =
              add_contribution_to_emissions(
                add_contribution_to_priors(profile_stats_block_, pz), pz, c)
         /\ log_likelihood_' = Append(log_likelihood_, Log2(sum))
         /\ sum # Huge
         /\ \A k \in Profiles : pz[k] # Huge
  /\ \A k \in Profiles : Fits(profile_stats_block_'[k])
  /\ bi' = bi + 1
  /\ em_pc' = IF bi + 1 = block[2] THEN "update" ELSE "estep"
  /\ UNCHANGED <<auxVars, funcVars, data_, lib_, profile_stats_, epsilon_, block>>

\* the blend with gamma applied to the block statistics instead
BlendSwapped(p, p_block, gamma) ==
  [prior |-> RAdd(p.prior, RMul(gamma, p_block.prior)),
   prof  |-> [j \in Cols |-> [a \in Letters |->
                RAdd(p.prof[j][a], RMul(gamma, p_block.prof[j][a]))]]]

\* Clustering::update_sufficient_statistics, the statement of its loop body
Blend(p, p_block, gamma) ==
  [prior |-> RAdd(RMul(p.prior, gamma), p_block.prior),
   prof  |-> [j \in Cols |-> [a \in Letters |->
                RAdd(RMul(gamma, p.prof[j][a]), p_block.prof[j][a])]]]

\* update_sufficient_statistics without the Reset of the block statistics
update_sufficient_statistics_no_reset ==
  /\ em_pc = "update"
  /\ LET gamma == RSub(One, epsilon_)
     IN  profile_stats_' =
           [k \in Profiles |->
              Blend(profile_stats_[k], profile_stats_block_[k], gamma)]
  /\ \A k \in Profiles : Fits(profile_stats_'[k])
  /\ em_pc' = "mstep"
  /\ UNCHANGED <<auxVars, funcVars, data_, lib_, epsilon_, log_likelihood_, block, bi,
                 p_zn, sum_zn, profile_stats_block_>>

update_sufficient_statistics ==
  /\ em_pc = "update"
  /\ LET gamma == RSub(One, epsilon_)
     IN  profile_stats_' =
           [k \in Profiles |->
              Blend(profile_stats_[k], profile_stats_block_[k], gamma)]
  /\ \A k \in Profiles : Fits(profile_stats_'[k])
  /\ profile_stats_block_' =
       [k \in Profiles |-> Reset(profile_stats_block_[k])]
  /\ em_pc' = "mstep"
  /\ UNCHANGED <<auxVars, funcVars, data_, lib_, epsilon_, log_likelihood_, block, bi,
                 p_zn, sum_zn>>

\* the loop body of MaximizationStep without the test of Normalize's result
NewComponentAlways(old, p_k, fac) ==
  [prior |-> RMul(p_k.prior, fac),
   prof  |-> TransformToLogSpace(Normalize(p_k.prof, One).prof)]

\* Clustering::MaximizationStep, the body of its loop over the components
NewComponent(old, p_k, fac) ==
  LET tmp == Normalize(p_k.prof, One)
  IN  [prior |-> RMul(p_k.prior, fac),
       prof  |-> IF tmp.ok THEN TransformToLogSpace(tmp.prof) ELSE old.prof]

MaximizationStep ==
  /\ em_pc = "mstep"
  /\ LET sum == RSumTo([k \in Profiles |-> profile_stats_[k].prior],
                       NumProfiles)
         fac == RDiv(One, sum)
     IN  lib_' = [comp |-> [k \in Profiles |->
                              NewComponent(lib_.comp[k], profile_stats_[k], fac)],
                  iterations |-> lib_.iterations + 1]
  /\ \A k \in Profiles : FitsLog(lib_'.comp[k])
  /\ em_pc' = "idle"
  /\ UNCHANGED <<auxVars, funcVars, data_, profile_stats_, profile_stats_block_,
                 epsilon_, log_likelihood_, block, bi, p_zn, sum_zn>>

NextEM ==
  \/ \E b \in Blocks, eps \in Epsilons : ExpectationStepBegin(b, eps)
  \/ ExpectationStepItem
  \/ update_sufficient_statistics
  \/ MaximizationStep

\* ------------------------------------------------------------------------
\* Training sequences, context libraries and CRFs of func.h
\* ------------------------------------------------------------------------
Train == 0 .. (NumData - 1)

\* Training sequence n: the window x holds letter (n + j) mod (A + 1) in
\* column j (the value A is the 'any' symbol), the target y is uniform for
\* even n and prefers letter 0 for odd n.
trainset ==
  [n \in Train |->
     [x |-> [j \in Cols |-> (n + j) % (AlphabetSize + 1)],
      y |-> [a \in Letters |->
               IF n % 2 = 0 THEN <<1, AlphabetSize>>
               ELSE Norm(IF a = 0 THEN 2 ELSE 1, AlphabetSize + 1)]]]

\* background frequencies sm.f(a) = sm.p(a) of the substitution matrix
sm_p == [a \in Letters |-> <<1, AlphabetSize>>]

\* A context library: the components of a profile library, each with the
\* pseudocount vector pc taken from its central column.
ContextLibrary(comp) ==
  [k \in Profiles |->
     [prior |-> comp[k].prior,
      probs |-> comp[k].prof,
      pc    |-> [a \in Letters |-> Pow2(comp[k].prof[Center][a])]]]

\* emission(profile, seq, index): the log2 emission score of the sequence
\* window centred at 'index'; a position holding 'any' contributes nothing.
EmissionSeq(probs, seq, len, index) ==
  LET beg == IF index - Center > 0 THEN index - Center ELSE 0
      end == IF len - 1 < index + Center THEN len - 1 ELSE index + Center
      RECURSIVE rv(_)
      rv(i) == IF i < beg THEN LgZero
               ELSE IF seq[i] = kAny THEN rv(i - 1)
               ELSE LgAdd(rv(i - 1),
                          LgScale(weights_[i - index + Center],
                                  probs[i - index + Center][seq[i]]))
  IN  rv(end)

\* CalculatePosteriorProbs(lib, emission, x, cidx, pp)
CalculatePosteriorProbs(lib, x, cidx) ==
  LET r   == [k \in Profiles |->
                RMul(lib[k].prior,
                     Pow2(EmissionSeq(lib[k].probs, x, NumCols, cidx)))]
      sum == RSumTo(r, NumProfiles)
  IN  [k \in Profiles |-> RDiv(r[k], sum)]

\* ------------------------------------------------------------------------
\* '#pragma omp parallel for schedule(static)'
\* ------------------------------------------------------------------------
NumThreads == 2

\* the thread that runs iteration i of a loop of n iterations: the first
\* n mod NumThreads threads take one iteration more than the others
ChunkOf(i, n) ==
  LET q == n \div NumThreads
      r == n % NumThreads
  IN  IF i < r * (q + 1) THEN i \div (q + 1)
      ELSE r + (i - r * (q + 1)) \div (IF q = 0 THEN 1 ELSE q)

\* a thread runs its iterations in index order: iteration i can run when
\* the lower iterations of its chunk have run
Runnable(i, n, ran) ==
  \A h \in 0 .. (i - 1) : ChunkOf(h, n) = ChunkOf(i, n) => h \in ran

\* admixtures tau of ContextLibFunc
Taus == {Zero, <<1, 2>>, One}

\* the term y * (log(pa) - log(f)) of a log-likelihood, kept symbolically
LogTerm(y, pa, f) == [y |-> y, arg |-> RDiv(pa, f)]

\* ------------------------------------------------------------------------
\* ContextLibFunc::operator()
\* ------------------------------------------------------------------------
\* pa[a] += pp[k] * lib[k].pc[a], over all k
Pseudocounts(pp, pcs) ==
  [a \in Letters |->
     RSumTo([k \in Profiles |-> RMul(pp[k], pcs[k][a])], NumProfiles)]

\* pa[a] = (1 - tau) * (x[cidx] == a ? 1 : 0) + tau * pa[a]
Admix(pa, x_c, tau) ==
  [a \in Letters |->
     RAdd(RMul(RSub(One, tau), IF x_c = a THEN One ELSE Zero),
          RMul(tau, pa[a]))]

LfOff ==
  [pc |-> "off", lib |-> ContextLibrary(LibUniform), tau |-> One,
   done |-> {}, pp |-> <<>>, pa |-> <<>>, loglike |-> {}, order |-> <<>>]

InitLf ==
  lf \in [pc : {"run"}, lib : {ContextLibrary(c) : c \in Libraries},
          tau : Taus, done : {{}}, pp : {<<>>}, pa : {<<>>},
          loglike : {{}}, order : {<<>>}]

\* the body of the parallel loop for training point n
LfItem(n) ==
  /\ lf.pc = "run"
  /\ n \notin lf.done
  /\ Runnable(n, NumData, lf.done)
  /\ LET cidx == Center
         x    == trainset[n].x
         pp   == CalculatePosteriorProbs(lf.lib, x, cidx)
         pa   == Admix(Pseudocounts(pp, [k \in Profiles |-> lf.lib[k].pc]),
                       x[cidx], lf.tau)
         ll_n == [a \in Letters |-> LogTerm(trainset[n].y[a], pa[a], sm_p[a])]
     IN  /\ \A k \in Profiles : pp[k] # Huge
         /\ \A a \in Letters : pa[a] # Huge
         /\ lf' = [lf EXCEPT !.done = @ \cup {n},
                             !.pp = (n :> pp) @@ @,
                             !.pa = (n :> pa) @@ @,
                             !.loglike = @ \cup {<<n, ll_n>>},
                             !.order = Append(@, n)]
  /\ UNCHANGED <<auxVars, emVars, cf, crf_, df_pc, df, s_io, wk>>

\* return loglike
LfReturn ==
  /\ lf.pc = "run"
  /\ lf.done = Train
  /\ lf' = [lf EXCEPT !.pc = "done"]
  /\ UNCHANGED <<auxVars, emVars, cf, crf_, df_pc, df, s_io, wk>>

\* ------------------------------------------------------------------------
\* CRFs; every weight is an integer multiple of ln 2
\* ------------------------------------------------------------------------
\* exp(m * ln 2)
RECURSIVE Exp(_)
Exp(m) == IF m = 0 THEN One
          ELSE IF m < 0 THEN RDiv(Exp(m + 1), Int2R(2))
          ELSE RMul(Exp(m - 1), Int2R(2))

\* pc[a] = exp(pc_weights[a]) / sum_b exp(pc_weights[b])
Softmax(q) ==
  LET sum == RSumTo([a \in Letters |-> Exp(q[a])], AlphabetSize)
  IN  [a \in Letters |-> RDiv(Exp(q[a]), sum)]

CrfState(bias, cw, q) ==
  [bias_weight |-> bias, context_weights |-> cw, pc_weights |-> q,
   pc |-> Softmax(q)]

\* all weights zero
CrfZero ==
  [k \in Profiles |->
     CrfState(0, [j \in Cols |-> [a \in Letters |-> 0]], [a \in Letters |-> 0])]

\* state k: bias k, context weight 1 for letter (k + j) mod A in column j
\* and -1 for letter (k + j + 1) mod A, pseudocount weight 1 for letter
\* k mod A
CrfRamp ==
  [k \in Profiles |->
     CrfState(k,
              [j \in Cols |-> [a \in Letters |->
                 IF a = (k + j) % AlphabetSize THEN 1
                 ELSE IF a = (k + j + 1) % AlphabetSize THEN -1 ELSE 0]],
              [a \in Letters |-> IF a = k % AlphabetSize THEN 1 ELSE 0])]

Crfs == {CrfZero, CrfRamp}

\* ContextScore(context_weights, x, idx, center); 'any' contributes nothing
ContextScore(cw, x, len, idx) ==
  LET beg == IF idx - Center > 0 THEN idx - Center ELSE 0
      end == IF len - 1 < idx + Center THEN len - 1 ELSE idx + Center
      RECURSIVE sc(_)
      sc(i) == IF i < beg THEN 0
               ELSE IF x[i] = kAny THEN sc(i - 1)
               ELSE sc(i - 1) + cw[i - idx + Center][x[i]]
  IN  sc(end)

\* pp[k] = bias_weight + ContextScore(...), in units of ln 2
Scores(crf, x) ==
  [k \in Profiles |->
     crf[k].bias_weight + ContextScore(crf[k].context_weights, x, NumCols, Center)]

\* max of pp[0 .. n-1], found as the loop does ('if (pp[k] > max)')
RECURSIVE MaxTo(_, _)
MaxTo(u, n) ==
  IF n = 1 THEN u[0]
  ELSE IF u[n - 1] > MaxTo(u, n - 1) THEN u[n - 1] ELSE MaxTo(u, n - 1)

\* the normalisation without the log(sum) term: pp[k] = exp(pp[k] - max)
LogSumExpNoSum(u) ==
  LET max == MaxTo(u, NumProfiles)
  IN  [k \in Profiles |-> Exp(u[k] - max)]

\* the log-sum-exp normalisation: sum = sum_k exp(pp[k] - max),
\* tmp = max + log(sum), pp[k] = exp(pp[k] - tmp)
LogSumExp(u) ==
  LET max == MaxTo(u, NumProfiles)
      sum == RSumTo([k \in Profiles |-> Exp(u[k] - max)], NumProfiles)
  IN  [k \in Profiles |-> RDiv(Exp(u[k] - max), sum)]

\* pa[a] += crf[k].pc[a] * pp[k], over all k
CrfPseudocounts(crf, pp) ==
  [a \in Letters |->
     RSumTo([k \in Profiles |-> RMul(crf[k].pc[a], pp[k])], NumProfiles)]

\* ------------------------------------------------------------------------
\* CrfFunc::operator()
\* ------------------------------------------------------------------------
CfOff ==
  [pc |-> "off", done |-> {}, pp |-> <<>>, pa |-> <<>>, loglike |-> {},
   order |-> <<>>]

CfStart ==
  [pc |-> "run", done |-> {}, pp |-> <<>>, pa |-> <<>>, loglike |-> {},
   order |-> <<>>]

\* the body of the parallel loop for training point n
CfItem(n) ==
  /\ cf.pc = "run"
  /\ n \notin cf.done
  /\ Runnable(n, NumData, cf.done)
  /\ LET pp   == LogSumExp(Scores(crf_, trainset[n].x))
         pa   == CrfPseudocounts(crf_, pp)
         ll_n == [a \in Letters |-> LogTerm(trainset[n].y[a], pa[a], sm_p[a])]
     IN  /\ \A k \in Profiles : pp[k] # Huge
         /\ \A a \in Letters : pa[a] # Huge
         /\ cf' = [cf EXCEPT !.done = @ \cup {n},
                             !.pp = (n :> pp) @@ @,
                             !.pa = (n :> pa) @@ @,
                             !.loglike = @ \cup {<<n, ll_n>>},
                             !.order = Append(@, n)]
  /\ UNCHANGED <<auxVars, emVars, lf, crf_, df_pc, df, s_io, wk>>

\* return loglike
CfReturn ==
  /\ cf.pc = "run"
  /\ cf.done = Train
  /\ cf' = [cf EXCEPT !.pc = "done"]
  /\ UNCHANGED <<auxVars, emVars, lf, crf_, df_pc, df, s_io, wk>>

\* ------------------------------------------------------------------------
\* DerivCrfFunc
\* ------------------------------------------------------------------------
MaxBlocks == 3
MaxCalls == 2

\* size_t arithmetic, with the modulus 2^64 scaled down to 2^16
SizeTMod == IPow2(16)

sigma_context == <<3, 10>>
sigma_decay == <<9, 10>>
sigma_bias == <<10, 1>>

wlen == NumCols

\* crf.nweights()
nweights == NumProfiles * (1 + wlen * AlphabetSize + AlphabetSize)

\* iround(x) for x = num / den >= 0
iround(num, den) == (2 * num + den) \div (2 * den)

\* GetBlock without the special case of the last block
GetBlockOfEqual(size_, b, nblocks) ==
  LET block_size == iround(size_, nblocks)
      beg  == (b * block_size) % SizeTMod
      end  == ((b + 1) * block_size) % SizeTMod
      size == (end - beg) % SizeTMod
  IN  [beg |-> beg, end |-> end, size |-> size, frac |-> Norm(size, size_)]

\* GetBlock(b, nblocks) of a training set of size_ items
GetBlockOf(size_, b, nblocks) ==
  LET block_size == iround(size_, nblocks)
      beg  == (b * block_size) % SizeTMod
      end  == IF b = nblocks - 1 THEN size_
              ELSE ((b + 1) * block_size) % SizeTMod
      size == (end - beg) % SizeTMod
  IN  [beg |-> beg, end |-> end, size |-> size, frac |-> Norm(size, size_)]

GetBlock(b, nblocks) == GetBlockOf(NumData, b, nblocks)

\* DerivCrfFuncIO(c)
DerivCrfFuncIO ==
  [grad_loglike |-> [i \in 0 .. (nweights - 1) |-> Zero],
   grad_prior   |-> [i \in 0 .. (nweights - 1) |-> Zero],
   loglike      |-> [dblmax |-> TRUE, terms |-> <<>>],
   prior        |-> [dblmax |-> TRUE, terms |-> <<>>]]

\* acc += v on a double that may still hold -DBL_MAX; 'terms' are the
\* values added so far
PlusAssign(acc, v) == [acc EXCEPT !.terms = Append(@, v)]

DfIdle ==
  [block |-> GetBlock(0, 1), mpp |-> <<>>, mpa |-> <<>>, done |-> {},
   loglike |-> {}, order |-> <<>>, ncalls |-> 0]

WkIdle == [n |-> [k \in Profiles |-> 0], writes |-> {}]

\* sigma_context * pow(sigma_decay, fabs(j - c))
SigmaAt(j) == RMul(sigma_context, RPow(sigma_decay, Abs(j - Center)))

\* SQR(x)
SQR(x) == RMul(x, x)

\* CalculatePrior(crf), in units of (ln 2)^2
CalculatePrior(crf) ==
  LET fac_bias == RDiv(<<-1, 2>>, SQR(sigma_bias))
      fac_context == [j \in Cols |-> RDiv(<<-1, 2>>, SQR(SigmaAt(j)))]
      ofCol(k, j) ==
        RSumTo([a \in Letters |->
                  RMul(fac_context[j],
                       Int2R(crf[k].context_weights[j][a] *
                             crf[k].context_weights[j][a]))],
               AlphabetSize)
      ofState(k) ==
        RAdd(RMul(fac_bias, Int2R(crf[k].bias_weight * crf[k].bias_weight)),
             RSumTo([j \in Cols |-> ofCol(k, j)], NumCols))
  IN  RSumTo([k \in Profiles |-> ofState(k)], NumProfiles)

\* a prior gradient that regularises the pseudocount weights like the bias
CalculatePriorGradientAll(blk, crf) ==
  LET fac_bias == RDiv(RNeg(blk.frac), SQR(sigma_bias))
      fac_context == [j \in Cols |-> RDiv(RNeg(blk.frac), SQR(SigmaAt(j)))]
      stride == 1 + wlen * AlphabetSize + AlphabetSize
  IN  [i \in 0 .. (nweights - 1) |->
         LET k == i \div stride
             r == i % stride
         IN  IF r = 0 THEN RMul(fac_bias, Int2R(crf[k].bias_weight))
             ELSE IF r <= wlen * AlphabetSize
               THEN LET j == (r - 1) \div AlphabetSize
                        a == (r - 1) % AlphabetSize
                    IN  RMul(fac_context[j], Int2R(crf[k].context_weights[j][a]))
             ELSE RMul(fac_bias,
                       Int2R(crf[k].pc_weights[r - 1 - wlen * AlphabetSize]))]

\* CalculatePriorGradient(block, crf, grad), in units of ln 2
CalculatePriorGradient(blk, crf) ==
  LET fac_bias == RDiv(RNeg(blk.frac), SQR(sigma_bias))
      fac_context == [j \in Cols |-> RDiv(RNeg(blk.frac), SQR(SigmaAt(j)))]
      stride == 1 + wlen * AlphabetSize + AlphabetSize
  IN  [i \in 0 .. (nweights - 1) |->
         LET k == i \div stride
             r == i % stride
         IN  IF r = 0 THEN RMul(fac_bias, Int2R(crf[k].bias_weight))
             ELSE IF r <= wlen * AlphabetSize
               THEN LET j == (r - 1) \div AlphabetSize
                        a == (r - 1) % AlphabetSize
                    IN  RMul(fac_context[j], Int2R(crf[k].context_weights[j][a]))
             ELSE Zero]

\* df(s, b, nblocks) up to the parallel loop over the training points
DfBegin(b, nblocks) ==
  /\ df_pc = "idle"
  /\ df.ncalls < MaxCalls
  /\ b < nblocks
  /\ LET blk == GetBlock(b, nblocks)
     IN  /\ df' = [df EXCEPT !.block = blk, !.mpp = <<>>, !.mpa = <<>>,
                             !.done = {}, !.loglike = {}, !.order = <<>>,
                             !.ncalls = @ + 1]
         /\ IF blk.size > NumData
              THEN df_pc' \in {"bad_alloc", "run"}
              ELSE df_pc' = "run"
  /\ UNCHANGED <<auxVars, emVars, lf, cf, crf_, s_io, wk>>

\* the body of the parallel loop for training point n of the block
DfItem(n) ==
  /\ df_pc = "run"
  /\ n \in df.block.beg .. (df.block.end - 1)
  /\ n \notin df.done
  /\ Runnable(n - df.block.beg, df.block.size,
              {d - df.block.beg : d \in df.done})
  /\ LET tseq == trainset[n]
         pp   == LogSumExp(Scores(crf_, tseq.x))
         pa   == CrfPseudocounts(crf_, pp)
         ll_n == [a \in Letters |-> LogTerm(tseq.y[a], pa[a], sm_p[a])]
         m    == n - df.block.beg
     IN  /\ \A k \in Profiles : pp[k] # Huge
         /\ \A a \in Letters : pa[a] # Huge
         /\ df' = [df EXCEPT !.done = @ \cup {n},
                             !.mpp = (m :> pp) @@ @,
                             !.mpa = (m :> pa) @@ @,
                             !.loglike = @ \cup {<<n, ll_n>>},
                             !.order = Append(@, n)]
  /\ UNCHANGED <<auxVars, emVars, lf, cf, crf_, df_pc, s_io, wk>>

\* s.loglike += loglike (the additions into the local loglike end here);
\* s.prior += block.frac * CalculatePrior(s.crf);
\* then CalculateLikelihoodGradient resets the gradient and starts its
\* parallel loop over the states
DfAccumulate ==
  /\ df_pc = "run"
  /\ df.done = {n \in Train : df.block.beg <= n /\ n < df.block.end}
  /\ s_io' = [s_io EXCEPT
                !.loglike = PlusAssign(@, df.loglike),
                !.prior = PlusAssign(@, RMul(df.block.frac, CalculatePrior(crf_))),
                !.grad_loglike = [i \in 0 .. (nweights - 1) |-> Zero]]
  /\ wk' = [n |-> [k \in Profiles |-> df.block.beg], writes |-> {}]
  /\ df' = [df EXCEPT !.order = <<>>]
  /\ df_pc' = "grad"
  /\ UNCHANGED <<auxVars, emVars, lf, cf, crf_>>

\* first index of the weights of state k in a shortened layout
StateOffsetShort(k) == k * (1 + wlen * AlphabetSize)

\* size_t i = k * (1 + (wlen + 1) * Abc::kSize)
StateOffset(k) == k * (1 + (wlen + 1) * AlphabetSize)

\* the gradient updates of state k for training point n, in program order,
\* each as <<index, addend>>
GradientUpdates(crf, blk, mpp, mpa, k, n) ==
  LET m    == n - blk.beg
      pa   == mpa[m]
      pc   == crf[k].pc
      tseq == trainset[n]
      i0   == StateOffset(k)
      fit  == RSumTo([a \in Letters |->
                        RMul(tseq.y[a], RSub(RDiv(pc[a], pa[a]), One))],
                     AlphabetSize)
      i1   == i0 + 1
      NotAny(j) == tseq.x[j] # kAny
      js   == SelectSeq([q \in 1 .. wlen |-> q - 1], NotAny)
      ctx  == [q \in 1 .. Len(js) |->
                 <<i1 + js[q] * AlphabetSize + tseq.x[js[q]],
                   RMul(mpp[m][k], fit)>>]
      i2   == i1 + wlen * AlphabetSize
      sum  == RSumTo([a \in Letters |->
                        RDiv(RMul(pc[a], tseq.y[a]), pa[a])],
                     AlphabetSize)
      pcs  == [a \in 1 .. AlphabetSize |->
                 <<i2 + (a - 1),
                   RMul(RMul(mpp[m][k], pc[a - 1]),
                        RSub(RDiv(tseq.y[a - 1], pa[a - 1]), sum))>>]
  IN  <<<<i0, RMul(mpp[m][k], fit)>>>> \o ctx \o pcs

\* grad[index] += addend for each update in turn
RECURSIVE AddTo(_, _, _, _)
AddTo(g, ups, i, q) ==
  IF q = 0 THEN g
  ELSE LET r == AddTo(g, ups, i, q - 1)
       IN  IF ups[q][1] = i THEN RAdd(r, ups[q][2]) ELSE r

ApplyUpdates(grad, ups) ==
  [i \in DOMAIN grad |-> AddTo(grad[i], ups, i, Len(ups))]

\* one pass of the loop over n in the thread that handles state k
GradientStep(k) ==
  /\ df_pc = "grad"
  /\ wk.n[k] < df.block.end
  /\ LET ups  == GradientUpdates(crf_, df.block, df.mpp, df.mpa, k, wk.n[k])
         grad == ApplyUpdates(s_io.grad_loglike, ups)
     IN  /\ \A i \in DOMAIN grad : grad[i] # Huge
         /\ s_io' = [s_io EXCEPT !.grad_loglike = grad]
         /\ wk' = [wk EXCEPT !.n[k] = @ + 1,
                             !.writes = @ \cup {<<k, ups[q][1]>> : q \in DOMAIN ups}]
  /\ UNCHANGED <<auxVars, emVars, lf, cf, crf_, df_pc, df>>

\* the parallel loop has ended; CalculatePriorGradient and return
DfPriorGradient ==
  /\ df_pc = "grad"
  /\ \A k \in Profiles : wk.n[k] >= df.block.end
  /\ s_io' = [s_io EXCEPT !.grad_prior = CalculatePriorGradient(df.block, crf_)]
  /\ df_pc' = "idle"
  /\ UNCHANGED <<auxVars, emVars, lf, cf, crf_, df, wk>>

\* ------------------------------------------------------------------------
\* The prior gradient over all blocks of a training set
\* ------------------------------------------------------------------------
MaxTrain == 6

GradZero == [i \in 0 .. (nweights - 1) |-> Zero]

\* a training set of 'size' items is to be handled in 'nblocks' blocks
InitBlocks ==
  gb \in [pc : {"run"}, size : 1 .. MaxTrain, nblocks : 1 .. MaxBlocks,
          crf : Crfs, b : {0}, sum : {GradZero}, fracs : {Zero}]

\* CalculatePriorGradient for block b, added to the sum over the blocks
BlockPriorGradient ==
  /\ gb.pc = "run"
  /\ LET blk  == GetBlockOf(gb.size, gb.b, gb.nblocks)
         grad == CalculatePriorGradient(blk, gb.crf)
         sum  == [i \in DOMAIN grad |-> RAdd(gb.sum[i], grad[i])]
     IN  /\ \A i \in DOMAIN sum : sum[i] # Huge
         /\ gb' = [gb EXCEPT !.sum = sum,
                             !.fracs = RAdd(@, blk.frac),
                             !.b = @ + 1,
                             !.pc = IF gb.b + 1 = gb.nblocks
                                      THEN "done" ELSE "run"]
  /\ UNCHANGED <<emVars, funcVars, moreVars, pm, sq, io>>

NextBlocks == BlockPriorGradient

\* ------------------------------------------------------------------------
\* ProfileMatcher
\* ------------------------------------------------------------------------
MaxW == 4
MaxLen == 3

\* a % b of C++ for b > 0: the result has the sign of a
CRem(a, b) == IF a >= 0 THEN a % b ELSE -((-a) % b)

\* init_weights that stores weights for a window of any length
init_weights_any(len, weight_center, weight_decay) ==
  LET center == (len - 1) \div 2
  IN  [thrown |-> FALSE,
       w |-> [j \in 0 .. (len - 1) |->
                RMul(weight_center, RPow(weight_decay, Abs(j - center)))]]

\* init_weights(len, weight_center, weight_decay): whether it throws, and
\* the array w it leaves (<<>> stands for the NULL pointer)
init_weights(len, weight_center, weight_decay) ==
  IF CRem(len, 2) # 1
  THEN [thrown |-> TRUE, w |-> <<>>]
  ELSE LET center == (len - 1) \div 2
       IN  [thrown |-> FALSE,
            w |-> [j \in 0 .. (len - 1) |->
                     IF j = center THEN weight_center
                     ELSE RMul(weight_center,
                               RPow(weight_decay, Abs(j - center)))]]

\* weight_center and weight_decay; the weights they give are integers
Weightings == {<<One, One>>, <<Int2R(IPow2(MaxW \div 2)), <<1, 2>>>>}

\* a context profile of W columns in log2 space: column j gives
\* probability 2/(A+1) to letter j mod A and 1/(A+1) to the others
MatchProfile(W) ==
  [j \in 0 .. (W - 1) |-> [a \in Letters |->
     Log2(Norm(IF a = j % AlphabetSize THEN 2 ELSE 1, AlphabetSize + 1))]]

\* a sequence of L letters, 'any' (the value A) among them
MatchSequence(L, s) == [i \in 0 .. (L - 1) |-> (i + s) % (AlphabetSize + 1)]

\* a counts profile of L columns
MatchCounts(L, s) == [i \in 0 .. (L - 1) |-> OneHot((i + s) % AlphabetSize)]

\* what is found outside the storage of a profile
Garbage == {Log2(One), Log2(<<1, 2>>)}

\* profile[j][a] on the row-major storage of W x A entries: an index a = A
\* is the first entry of the next column, or lies behind the storage
ReadEntry(profile, W, j, a, g) ==
  IF a < AlphabetSize THEN profile[j][a]
  ELSE IF j + 1 < W THEN profile[j + 1][a - AlphabetSize]
  ELSE g

\* the window around index, not cut at the end of the subject
OverlapUncut(center, len, index) ==
  LET beg == IF 0 > index - center THEN 0 ELSE index - center
      end == index + center
  IN  beg .. end

\* the subject columns beg .. end that overlap the window around index
Overlap(center, len, index) ==
  LET beg == IF 0 > index - center THEN 0 ELSE index - center
      end == IF len - 1 < index + center THEN len - 1 ELSE index + center
  IN  beg .. end

\* the last index of a non-empty range
LastOf(S) == CHOOSE x \in S : \A y \in S : y <= x

\* subject[i], or what is found behind the subject
ReadSubject(subject, len, i, g) ==
  IF i \in 0 .. (len - 1) THEN subject[i] ELSE g

\* an integral weight as a count
AsCount(r) == r[1]

\* rv of operator()(profile, counts, index), as a log2-space value
MatchCountsScore(w, profile, W, counts, len, index) ==
  LET center == (W - 1) \div 2
      colsum(i, j) ==
        LgSumTo([a \in Letters |->
                   LgScale(ReadSubject(counts, len, i, OneHot(0))[a],
                           profile[j][a])],
                AlphabetSize)
      ov == Overlap(center, len, index)
      RECURSIVE rv(_)
      rv(i) == IF i \notin ov THEN LgZero
               ELSE LET j == i - index + center
                    IN  LgAdd(rv(i - 1), LgScale(AsCount(w[j]), colsum(i, j)))
  IN  IF w # <<>>
      THEN rv(LastOf(ov))
      ELSE colsum(index, center)

\* rv of operator()(profile, seq, index), as a log2-space value
MatchSeqScore(w, profile, W, seq, len, index, g) ==
  LET center == (W - 1) \div 2
      ov == Overlap(center, len, index)
      RECURSIVE rv(_)
      rv(i) == IF i \notin ov THEN LgZero
               ELSE LET j == i - index + center
                    IN  LgAdd(rv(i - 1),
                              LgScale(AsCount(w[j]),
                                      ReadEntry(profile, W, j,
                                                ReadSubject(seq, len, i, 0), g)))
  IN  IF w # <<>>
      THEN rv(LastOf(ov))
      ELSE ReadEntry(profile, W, center, seq[index], g)

\* the subject columns i and window columns j the score reads
MatchReads(w, W, len, index) ==
  LET center == (W - 1) \div 2
      ov == Overlap(center, len, index)
  IN  IF w # <<>>
      THEN [subj |-> ov, win |-> {i - index + center : i \in ov}]
      ELSE [subj |-> {index}, win |-> {center}]

PmNew ==
  [pc |-> "new", len |-> 0, wc |-> One, decay |-> One, w |-> <<>>,
   kind |-> "none", W |-> 0, L |-> 0, index |-> 0, subject |-> <<>>,
   subj |-> {}, win |-> {}, entries |-> {}, score |-> Zero]

\* the odd profile lengths
OddLens == {W \in 1 .. MaxW : W % 2 = 1}

\* matcher.init_weights(len, weight_center, weight_decay)
PmInitWeights(len, wt) ==
  /\ pm.pc = "new"
  /\ LET r == init_weights(len, wt[1], wt[2])
     IN  pm' = [pm EXCEPT !.pc = IF r.thrown THEN "exception" ELSE "ready",
                          !.len = len, !.wc = wt[1], !.decay = wt[2],
                          !.w = r.w]
  /\ UNCHANGED <<emVars, funcVars, moreVars, gb, sq, io>>

\* matcher(profile, counts, index)
PmScoreCounts(W, L, s, index) ==
  /\ pm.pc \in {"new", "ready"}
  /\ pm.pc = "ready" => W = pm.len
  /\ LET profile == MatchProfile(W)
         counts  == MatchCounts(L, s)
         rv      == MatchCountsScore(pm.w, profile, W, counts, L, index)
         reads   == MatchReads(pm.w, W, L, index)
     IN  /\ Pow2(rv) # Huge
         /\ pm' = [pm EXCEPT !.pc = "scored", !.kind = "counts", !.W = W,
                             !.L = L, !.index = index, !.subject = counts,
                             !.subj = reads.subj, !.win = reads.win,
                             !.entries = reads.win \X Letters,
                             !.score = Pow2(rv)]
  /\ UNCHANGED <<emVars, funcVars, moreVars, gb, sq, io>>

\* matcher(profile, seq, index)
PmScoreSeq(W, L, s, index, g) ==
  /\ pm.pc \in {"new", "ready"}
  /\ pm.pc = "ready" => W = pm.len
  /\ LET profile == MatchProfile(W)
         seq     == MatchSequence(L, s)
         rv      == MatchSeqScore(pm.w, profile, W, seq, L, index, g)
         reads   == MatchReads(pm.w, W, L, index)
     IN  /\ Pow2(rv) # Huge
         /\ pm' = [pm EXCEPT !.pc = "scored", !.kind = "seq", !.W = W,
                             !.L = L, !.index = index, !.subject = seq,
                             !.subj = reads.subj, !.win = reads.win,
                             !.entries =
                               {<<i - index + (W - 1) \div 2,
                                  ReadSubject(seq, L, i, 0)>> : i \in reads.subj},
                             !.score = Pow2(rv)]
  /\ UNCHANGED <<emVars, funcVars, moreVars, gb, sq, io>>

NextMatcher ==
  \/ \E len \in 0 .. MaxW, wt \in Weightings : PmInitWeights(len, wt)
  \/ \E W \in OddLens, L \in 1 .. MaxLen, s \in 0 .. AlphabetSize :
       \E index \in 0 .. (L - 1) : PmScoreCounts(W, L, s, index)
  \/ \E W \in OddLens, L \in 1 .. MaxLen, s \in 0 .. AlphabetSize :
       \E index \in 0 .. (L - 1), g \in Garbage : PmScoreSeq(W, L, s, index, g)

\* ------------------------------------------------------------------------
\* The E-step accumulation on sequence windows
\* ------------------------------------------------------------------------
\* windows of num_cols letters: one letter throughout, or consecutive
\* symbols with 'any' among them
SeqWindows ==
  {[j \in Cols |-> a] : a \in Letters}
    \cup {[j \in Cols |-> (j + s) % (AlphabetSize + 1)] : s \in 0 .. AlphabetSize}

\* posteriors p_zn: all mass on component 0, or uniform
SeqPosteriors ==
  {[k \in Profiles |-> IF k = 0 THEN One ELSE Zero],
   [k \in Profiles |-> Norm(1, NumProfiles)]}

\* the block statistics after Reset, and nothing written yet
SeqStatsNew ==
  [pc |-> "run", n |-> 0,
   stats |-> [k \in Profiles |-> [j \in Cols |-> [a \in Letters |-> Zero]]],
   touched |-> {}, behind |-> {}]

\* how often the loop over j writes the entry [j][a] of the row-major
\* storage: p_k[j][s[j]] with s[j] = 'any' is the first entry of column j+1
SeqHits(x, j, a) ==
  (IF x[j] = a THEN 1 ELSE 0)
    + (IF a = 0 /\ j >= 1 /\ x[j - 1] = kAny THEN 1 ELSE 0)

\* Clustering::add_contribution_to_emissions (sequence)
add_contribution_to_emissions_seq(stats, pz, x) ==
  [k \in Profiles |-> [j \in Cols |-> [a \in Letters |->
     RAdd(stats[k][j][a], RMul(Int2R(SeqHits(x, j, a)), pz[k]))]]]

\* add_contribution_to_emissions(p_zn, s) for one more training window;
\* 'touched' are the indices [j][s[j]] used, 'behind' the components whose
\* storage was written behind its last entry
SeqAddContribution(x, pz) ==
  /\ sq.pc = "run"
  /\ sq.n < NumData
  /\ LET stats == add_contribution_to_emissions_seq(sq.stats, pz, x)
     IN  /\ \A k \in Profiles, j \in Cols, a \in Letters : stats[k][j][a] # Huge
         /\ sq' = [sq EXCEPT !.n = @ + 1,
                             !.stats = stats,
                             !.touched = @ \cup {<<j, x[j]>> : j \in Cols},
                             !.behind = @ \cup (IF x[NumCols - 1] = kAny
                                                THEN Profiles ELSE {})]
  /\ UNCHANGED <<emVars, funcVars, moreVars, gb, pm, io>>

NextSeqStats == \E x \in SeqWindows, pz \in SeqPosteriors : SeqAddContribution(x, pz)

\* ------------------------------------------------------------------------
\* Serialization: text records
\* ------------------------------------------------------------------------
kLogScale == 1000
MaxIoCols == 2

\* A text is a sequence of lines and a line a sequence of tokens: a word,
\* or an integer printed with "%i".
Word(s) == [w |-> s, n |-> 0]
Num(i) == [w |-> "", n |-> i]
IsNum(t) == t.w = ""
Ast == Word("*")
EndMark == Word("//")

\* an output stream: the finished lines and the line being written
Out == [lines |-> <<>>, cur |-> <<>>]
Put(o, toks) == [o EXCEPT !.cur = @ \o toks]
NewLine(o) == [lines |-> Append(o.lines, o.cur), cur |-> <<>>]
PutLn(o, toks) == NewLine(Put(o, toks))

\* the text of a stream once it is closed
TextOf(o) == IF o.cur = <<>> THEN o.lines ELSE Append(o.lines, o.cur)

\* Alphabet::write: the letters, tab-separated
LetterNames == <<"A", "C", "G", "T", "N">>
AlphabetWrite(o) == Put(o, [a \in 1 .. AlphabetSize |-> Word(LetterNames[a])])

\* strstr(buffer, key)
HasWord(line, key) == \E q \in DOMAIN line : line[q] = Word(key)

\* position of the next integer at or behind position q of the line (or of
\* the next integer or '*' with ast); 0 when the line holds none
RECURSIVE Scan(_, _, _)
Scan(line, q, ast) ==
  IF q > Len(line) THEN 0
  ELSE IF IsNum(line[q]) \/ (ast /\ line[q] = Ast) THEN q
  ELSE Scan(line, q + 1, ast)

\* position of the a-th entry behind position q, read with strtoi_ast
RECURSIVE EntryPos(_, _, _)
EntryPos(line, q, a) ==
  IF a = 0 THEN q
  ELSE LET r == EntryPos(line, q, a - 1)
       IN  IF r = 0 /\ a > 1 THEN 0 ELSE Scan(line, r + 1, TRUE)

\* buffer[0] != '/' && buffer[1] != '/' fails: only the end marker holds '/'
EndsRecord(line) == Len(line) > 0 /\ line[1] = EndMark

\* static_cast<float>(-strtoi_ast(ptr)) / kLogScale: '*' stands for zero,
\* i.e. for the logarithm -inf
FromFixed(t) == IF t = Ast THEN NegInf ELSE Norm(-t.n, kLogScale)

\* "\t*" for -inf, else "\t%i" of -iround(log_p * kLogScale)
ToFixed(log_p) ==
  IF log_p = NegInf THEN Ast
  ELSE LET x == RMul(log_p, Int2R(kLogScale))
       IN  Num(-iround(x[1], x[2]))

\* pow(2.0, r) and log2 of such a value
Exp2(r) == [exp2 |-> r]
CLog2(v) == v.exp2

\* ------------------------------------------------------------------------
\* CountProfile: write and read
\* ------------------------------------------------------------------------
kClassID == "CountProfile"

\* logarithms that the fixed-point format represents
IoLogs == <<Zero, <<-1, 1>>, <<-317, 200>>, NegInf>>

\* a count profile of W columns, its entries kept in log or linear space
IoCountProfile(W, ls, hc, s) ==
  [num_cols |-> W, logspace |-> ls, has_counts |-> hc,
   data |-> [i \in 0 .. (W - 1) |-> [a \in Letters |->
               LET r == IoLogs[1 + ((i + a + s) % 4)]
               IN  IF ls THEN r ELSE Exp2(r)]],
   neff |-> [i \in 0 .. (W - 1) |-> Norm(2 + ((i + s) % 2), 2)]]

\* Profile::write_header: one key and value per line
ProfileWriteHeader(o, p) ==
  PutLn(PutLn(PutLn(o, <<Word("num_cols"), Num(p.num_cols)>>),
              <<Word("alphabet_size"), Num(AlphabetSize)>>),
        <<Word("logspace"), Num(IF p.logspace THEN 1 ELSE 0)>>)

\* CountProfile::write_header
CountWriteHeader(o, p) ==
  Put(ProfileWriteHeader(o, p),
      <<Word("has_counts"), Num(IF p.has_counts THEN 1 ELSE 0)>>)

\* one column record of CountProfile::write_body
CountWriteColumn(o, p, i) ==
  LET entry(a) == ToFixed(IF p.logspace THEN p.data[i][a]
                          ELSE CLog2(p.data[i][a]))
      neff == RMul(p.neff[i], Int2R(kLogScale))
  IN  PutLn(o, <<Num(i + 1)>> \o [a \in 1 .. AlphabetSize |-> entry(a - 1)]
                 \o <<Num(iround(neff[1], neff[2]))>>)

RECURSIVE CountWriteColumns(_, _, _)
CountWriteColumns(o, p, n) ==
  IF n = 0 THEN o ELSE CountWriteColumn(CountWriteColumns(o, p, n - 1), p, n - 1)

\* CountProfile::write_body; nl tells whether Alphabet::write ends the line
CountWriteBody(o, p, nl) ==
  LET a == AlphabetWrite(o)
      b == IF nl THEN NewLine(a) ELSE a
  IN  PutLn(CountWriteColumns(b, p, p.num_cols), <<EndMark>>)

\* Profile::write on a CountProfile
CountWrite(p, nl) ==
  TextOf(CountWriteBody(CountWriteHeader(PutLn(Out, <<Word(kClassID)>>), p), p, nl))

\* a 0.0f in a matrix that was resized and not assigned
FloatZero(ls) == IF ls THEN Zero ELSE Exp2(NegInf)

\* the value of a header line that holds the key, with strtoi
HeaderValue(lines, q, key) ==
  IF q <= Len(lines) /\ HasWord(lines[q], key) /\ Scan(lines[q], 1, FALSE) # 0
  THEN lines[q][Scan(lines[q], 1, FALSE)].n
  ELSE -1

\* the body of the loop of CountProfile::read_body for one line; acc holds
\* i, data_, neff_ and whether an index outside the profile was written
CountReadLine(acc, line, W, ls) ==
  LET q0 == Scan(line, 1, FALSE)
      i  == IF q0 = 0 THEN -1 ELSE line[q0].n - 1
      qe(a) == EntryPos(line, q0, a + 1)
      val(a) == LET r == IF qe(a) = 0 THEN Zero ELSE FromFixed(line[qe(a)])
                IN  IF ls THEN r ELSE Exp2(r)
      qn == IF qe(AlphabetSize - 1) = 0 THEN 0
            ELSE Scan(line, qe(AlphabetSize - 1) + 1, FALSE)
      neff == IF qn = 0 THEN Zero ELSE Norm(line[qn].n, kLogScale)
  IN  IF i \in 0 .. (W - 1)
      THEN [acc EXCEPT !.i = i, !.data[i] = [a \in Letters |-> val(a)],
                       !.neff[i] = neff]
      ELSE [acc EXCEPT !.i = i, !.outside = TRUE]

\* while (fgetline(...) && buffer[0] != '/' && buffer[1] != '/') from line q
RECURSIVE CountReadLoop(_, _, _, _, _)
CountReadLoop(acc, lines, q, W, ls) ==
  IF q > Len(lines) \/ EndsRecord(lines[q]) THEN acc
  ELSE CountReadLoop(CountReadLine(acc, lines[q], W, ls), lines, q + 1, W, ls)

\* CountProfile(FILE*): read_header and read_body on the text
CountRead(lines) ==
  LET W  == HeaderValue(lines, 2, "num_cols")
      A  == HeaderValue(lines, 3, "alphabet_size")
      lg == HeaderValue(lines, 4, "logspace")
      hc == HeaderValue(lines, 5, "has_counts")
      ls == lg = 1
      new == [i |-> 0, outside |-> FALSE,
              data |-> [i \in 0 .. (W - 1) |-> [a \in Letters |-> FloatZero(ls)]],
              neff |-> [i \in 0 .. (W - 1) |-> Zero]]
      \* line 6 is skipped as the alphabet description line
      acc == CountReadLoop(new, lines, 7, W, ls)
  IN  IF Len(lines) = 0 \/ ~HasWord(lines[1], kClassID)
         \/ W < 1 \/ A # AlphabetSize \/ lg = -1 \/ hc = -1
      THEN [thrown |-> TRUE]
      ELSE IF acc.i # W - 1 THEN [thrown |-> TRUE, outside |-> acc.outside]
      ELSE [thrown |-> FALSE, outside |-> acc.outside,
            p |-> [num_cols |-> W, logspace |-> ls, has_counts |-> hc = 1,
                   data |-> acc.data, neff |-> acc.neff]]

IoNew == [pc |-> "new"]

\* p.write(fout) for a count profile p
IoCountWrite(W, ls, hc, s, nl) ==
  /\ io.pc = "new"
  /\ LET p == IoCountProfile(W, ls, hc, s)
     IN  io' = [pc |-> "written", kind |-> kClassID, nl |-> nl, obj |-> p,
                text |-> CountWrite(p, nl)]
  /\ UNCHANGED <<emVars, funcVars, moreVars, gb, pm, sq>>

\* CountProfile q(fin) on the text written
IoCountRead ==
  /\ io.pc = "written"
  /\ io.kind = kClassID
  /\ LET r == CountRead(io.text)
     IN  io' = IF r.thrown
               THEN [pc |-> "exception", kind |-> io.kind, nl |-> io.nl,
                     obj |-> io.obj, text |-> io.text]
               ELSE [pc |-> "read", kind |-> io.kind, nl |-> io.nl,
                     obj |-> io.obj, text |-> io.text, got |-> r.p]
  /\ UNCHANGED <<emVars, funcVars, moreVars, gb, pm, sq>>

\* q.write(fout) for the profile read
IoCountRewrite ==
  /\ io.pc = "read"
  /\ io.kind = kClassID
  /\ io' = [pc |-> "rewritten", kind |-> io.kind, nl |-> io.nl, obj |-> io.obj,
            text |-> io.text, got |-> io.got, text2 |-> CountWrite(io.got, io.nl)]
  /\ UNCHANGED <<emVars, funcVars, moreVars, gb, pm, sq>>

NextCountIO ==
  \/ \E W \in 1 .. MaxIoCols, ls \in BOOLEAN, hc \in BOOLEAN, s \in 0 .. 3,
        nl \in BOOLEAN : IoCountWrite(W, ls, hc, s, nl)
  \/ IoCountRead
  \/ IoCountRewrite

\* ------------------------------------------------------------------------
\* CountProfile: reading a body with any column numbers
\* ------------------------------------------------------------------------
\* the column numbers of the records of a body: up to W + 1 records, each
\* with a number in 0 .. W + 1
BodyColumns(W) == UNION {[1 .. n -> 0 .. (W + 1)] : n \in 0 .. (W + 1)}

\* a record as read_header and read_body expect it, with one column line
\* for each number of cols
BodyText(W, cols) ==
  LET head == PutLn(PutLn(ProfileWriteHeader(PutLn(Out, <<Word(kClassID)>>),
                                             [num_cols |-> W, logspace |-> TRUE]),
                          <<Word("has_counts"), Num(0)>>),
                    [a \in 1 .. AlphabetSize |-> Word(LetterNames[a])])
      RECURSIVE lines(_)
      lines(n) == IF n = 0 THEN head
                  ELSE PutLn(lines(n - 1),
                             <<Num(cols[n])>>
                               \o [a \in 1 .. AlphabetSize |-> Num(kLogScale)]
                               \o <<Num(kLogScale)>>)
  IN  TextOf(PutLn(lines(Len(cols)), <<EndMark>>))

\* a record with the column numbers cols is in the stream
IoBodyText(W, cols) ==
  /\ io.pc = "new"
  /\ io' = [pc |-> "written", kind |-> "body", num_cols |-> W, cols |-> cols,
            text |-> BodyText(W, cols)]
  /\ UNCHANGED <<emVars, funcVars, moreVars, gb, pm, sq>>

\* CountProfile q(fin) on that record
IoBodyRead ==
  /\ io.pc = "written"
  /\ io.kind = "body"
  /\ LET r == CountRead(io.text)
     IN  io' = [pc |-> IF r.thrown THEN "exception" ELSE "read",
                kind |-> io.kind, num_cols |-> io.num_cols, cols |-> io.cols,
                text |-> io.text, outside |-> r.outside]
  /\ UNCHANGED <<emVars, funcVars, moreVars, gb, pm, sq>>

NextBodyIO ==
  \/ \E W \in 1 .. MaxIoCols : \E cols \in BodyColumns(W) : IoBodyText(W, cols)
  \/ IoBodyRead

\* ------------------------------------------------------------------------
\* CRFState: Write and Read
\* ------------------------------------------------------------------------
\* a state of W columns whose weights the fixed-point format represents
IoCrfState(index, W, s, t) ==
  [index |-> index, num_states |-> NumProfiles, num_cols |-> W,
   weights |-> [i \in 0 .. (W - 1) |-> [a \in Letters |->
                  IoLogs[1 + ((i + a + s) % 4)]]],
   pc |-> [a \in Letters |-> Norm(-(a + t), kLogScale)]]

\* CRFState::WriteHeader
CrfWriteHeader(o, st) ==
  PutLn(PutLn(PutLn(PutLn(o, <<Word("INDEX"), Num(st.index)>>),
                    <<Word("NSTATES"), Num(st.num_states)>>),
              <<Word("NCOLS"), Num(st.num_cols)>>),
        <<Word("ALPH"), Num(AlphabetSize)>>)

\* the column records of CRFState::WriteBody
RECURSIVE CrfWriteColumns(_, _, _)
CrfWriteColumns(o, st, n) ==
  IF n = 0 THEN o
  ELSE PutLn(CrfWriteColumns(o, st, n - 1),
             <<Num(n)>> \o [a \in 1 .. AlphabetSize |->
                              ToFixed(st.weights[n - 1][a - 1])])

\* CRFState::WriteBody: "PC", the pseudocount weights and "//" share a line
CrfWriteBody(o, st) ==
  LET cwt == NewLine(AlphabetWrite(Put(o, <<Word("CWT")>>)))
      pc  == Put(CrfWriteColumns(cwt, st, st.num_cols),
                 <<Word("PC")>> \o [a \in 1 .. AlphabetSize |->
                                      ToFixed(st.pc[a - 1])])
  IN  PutLn(pc, <<EndMark>>)

\* CRFState::Write
CrfWrite(st) ==
  TextOf(CrfWriteBody(CrfWriteHeader(PutLn(Out, <<Word("CRFState")>>), st), st))

\* INT_MAX of <climits>
IntMax == 2147483647

\* what -strtoi_ast(ptr) / kLogScale gives when the line holds no further
\* integer: strtoi_ast returns INT_MIN, whose negation overflows
NoInteger == {Norm(-IntMax, kLogScale), Norm(IntMax, kLogScale)}

\* the body of the loop of CRFState::ReadBody for one line
CrfReadLine(acc, line, W, g) ==
  LET q0 == Scan(line, 1, FALSE)
      i  == IF q0 = 0 THEN -1 ELSE line[q0].n - 1
      qe(a) == EntryPos(line, q0, a + 1)
      val(a) == IF qe(a) = 0 THEN g ELSE FromFixed(line[qe(a)])
  IN  IF i \in 0 .. (W - 1)
      THEN [acc EXCEPT !.i = i, !.weights[i] = [a \in Letters |-> val(a)]]
      ELSE [acc EXCEPT !.i = i, !.outside = TRUE]

RECURSIVE CrfReadLoop(_, _, _, _, _)
CrfReadLoop(acc, lines, q, W, g) ==
  IF q > Len(lines) \/ EndsRecord(lines[q]) THEN acc
  ELSE CrfReadLoop(CrfReadLine(acc, lines[q], W, g), lines, q + 1, W, g)

\* CRFState::Read: ReadHeader, Resize and ReadBody on the text
CrfRead(lines, g) ==
  LET index == HeaderValue(lines, 2, "INDEX")
      ns    == HeaderValue(lines, 3, "NSTATES")
      W     == HeaderValue(lines, 4, "NCOLS")
      A     == HeaderValue(lines, 5, "ALPH")
      new == [i |-> 0, outside |-> FALSE,
              weights |-> [i \in 0 .. (W - 1) |-> [a \in Letters |-> Zero]]]
      \* line 6 is skipped as the alphabet description line
      acc == CrfReadLoop(new, lines, 7, W, g)
  IN  IF Len(lines) = 0 \/ ~HasWord(lines[1], "CRFState")
         \/ index = -1 \/ ns = -1 \/ W < 1 \/ A # AlphabetSize
      THEN [thrown |-> TRUE]
      ELSE IF acc.i # W - 1 THEN [thrown |-> TRUE]
      ELSE [thrown |-> FALSE,
            st |-> [index |-> index, num_states |-> ns, num_cols |-> W,
                    weights |-> acc.weights,
                    pc |-> [a \in Letters |-> Zero],
                    outside |-> acc.outside]]

\* state.Write(fout)
IoCrfWrite(index, W, s, t) ==
  /\ io.pc = "new"
  /\ LET st == IoCrfState(index, W, s, t)
     IN  io' = [pc |-> "written", kind |-> "CRFState", obj |-> st,
                text |-> CrfWrite(st)]
  /\ UNCHANGED <<emVars, funcVars, moreVars, gb, pm, sq>>

\* state.Read(fin) on the text written
IoCrfRead(g) ==
  /\ io.pc = "written"
  /\ io.kind = "CRFState"
  /\ LET r == CrfRead(io.text, g)
     IN  io' = IF r.thrown
               THEN [io EXCEPT !.pc = "exception"]
               ELSE [pc |-> "read", kind |-> io.kind, obj |-> io.obj,
                     text |-> io.text, got |-> r.st]
  /\ UNCHANGED <<emVars, funcVars, moreVars, gb, pm, sq>>

NextCrfIO ==
  \/ \E index \in 0 .. (NumProfiles - 1), W \in 1 .. MaxIoCols, s \in 0 .. 3,
        t \in 0 .. MaxIoCols : IoCrfWrite(index, W, s, t)
  \/ \E g \in NoInteger : IoCrfRead(g)

\* ------------------------------------------------------------------------
\* ProfileLibrary: read
\* ------------------------------------------------------------------------
MaxRecords == 3

\* the header that ProfileLibrary::write puts before the profile records
LibWriteHeader(o, num_profiles, num_cols) ==
  PutLn(PutLn(PutLn(PutLn(PutLn(o, <<Word("ProfileLibrary")>>),
                          <<Word("num_profiles"), Num(num_profiles)>>),
                    <<Word("num_cols"), Num(num_cols)>>),
              <<Word("iterations"), Num(0)>>),
        <<Word("logspace"), Num(0)>>)

\* the record of component k: its type tag, header, columns and "//"
LibWriteProfile(o, k, num_cols) ==
  LET head == PutLn(PutLn(o, <<Word("ContextProfile")>>),
                    <<Word("index"), Num(k)>>)
      RECURSIVE cols(_)
      cols(n) == IF n = 0 THEN head
                 ELSE PutLn(cols(n - 1),
                            <<Num(n)>> \o [a \in 1 .. AlphabetSize |->
                                             ToFixed(IoLogs[1 + ((n + a + k) % 4)])])
  IN  PutLn(cols(num_cols), <<EndMark>>)

RECURSIVE LibWriteProfiles(_, _, _)
LibWriteProfiles(o, n, num_cols) ==
  IF n = 0 THEN o
  ELSE LibWriteProfile(LibWriteProfiles(o, n - 1, num_cols), n - 1, num_cols)

\* a library text that declares num_profiles and holds n profile records
LibText(num_profiles, n, num_cols) ==
  TextOf(LibWriteProfiles(LibWriteHeader(Out, num_profiles, num_cols), n, num_cols))

\* full()
LibFull(size_, num_profiles) == size_ = num_profiles

\* the line behind the record that starts at line q; 0 when the stream
\* holds no record there, and ContextProfile(in) throws
RECURSIVE RecordEnd(_, _)
RecordEnd(lines, q) ==
  IF q > Len(lines) THEN 0
  ELSE IF EndsRecord(lines[q]) THEN q + 1
  ELSE RecordEnd(lines, q + 1)

LibRecordAt(lines, q) ==
  IF q <= Len(lines) /\ HasWord(lines[q], "ContextProfile")
  THEN RecordEnd(lines, q) ELSE 0

\* the records that start at or behind line q
RECURSIVE LibRecordsLeft(_, _)
LibRecordsLeft(lines, q) ==
  IF LibRecordAt(lines, q) = 0 THEN 0
  ELSE 1 + LibRecordsLeft(lines, LibRecordAt(lines, q))

\* while (!full() && in.good()) from line q with size_ profiles read; good
\* is in.good() once the last line has been read
RECURSIVE LibReadLoop(_, _, _, _, _)
LibReadLoop(lines, q, size_, num_profiles, good) ==
  IF LibFull(size_, num_profiles) \/ (q > Len(lines) /\ ~good)
  THEN [thrown |-> FALSE, size |-> size_, next |-> q]
  ELSE IF LibRecordAt(lines, q) = 0
  THEN [thrown |-> TRUE, size |-> size_, next |-> q]
  ELSE LibReadLoop(lines, LibRecordAt(lines, q), size_ + 1, num_profiles, good)

\* ProfileLibrary::read
LibRead(lines, good) ==
  LET num_profiles == HeaderValue(lines, 2, "num_profiles")
      num_cols     == HeaderValue(lines, 3, "num_cols")
      iterations   == HeaderValue(lines, 4, "iterations")
      r == LibReadLoop(lines, 6, 0, num_profiles, good)
  IN  IF Len(lines) = 0 \/ ~HasWord(lines[1], "ProfileLibrary")
         \/ num_profiles = -1 \/ num_cols = -1 \/ iterations = -1
      THEN [thrown |-> TRUE, size |-> 0, left |-> 0]
      ELSE IF r.thrown
              \/ ~LibFull(r.size, num_profiles)
      THEN [thrown |-> TRUE, size |-> r.size,
            left |-> LibRecordsLeft(lines, r.next)]
      ELSE [thrown |-> FALSE, size |-> r.size,
            left |-> LibRecordsLeft(lines, r.next)]

\* a text with n profile records behind a header that declares num_profiles
IoLibText(num_profiles, n, num_cols) ==
  /\ io.pc = "new"
  /\ io' = [pc |-> "written", kind |-> "ProfileLibrary",
            declared |-> num_profiles, records |-> n,
            text |-> LibText(num_profiles, n, num_cols)]
  /\ UNCHANGED <<emVars, funcVars, moreVars, gb, pm, sq>>

\* ProfileLibrary lib(in) on the text
IoLibRead(good) ==
  /\ io.pc = "written"
  /\ io.kind = "ProfileLibrary"
  /\ LET r == LibRead(io.text, good)
     IN  io' = [pc |-> IF r.thrown THEN "exception" ELSE "read",
                kind |-> io.kind, declared |-> io.declared,
                records |-> io.records, text |-> io.text,
                size |-> r.size, left |-> r.left]
  /\ UNCHANGED <<emVars, funcVars, moreVars, gb, pm, sq>>

NextLibIO ==
  \/ \E num_profiles \in 0 .. MaxRecords, n \in 0 .. MaxRecords,
        num_cols \in 1 .. MaxIoCols : IoLibText(num_profiles, n, num_cols)
  \/ \E good \in BOOLEAN : IoLibRead(good)

\* ------------------------------------------------------------------------
\* ProfileLibrary: add_profile, clear and the transforms
\* ------------------------------------------------------------------------
MaxLibSize == 2
MaxLibCalls == 4

\* ProfileLibrary(num_profiles, num_cols)
LibNew(num_profiles, num_cols) ==
  [pc |-> "lib", num_profiles |-> num_profiles, num_cols |-> num_cols,
   logspace |-> FALSE, profiles |-> <<>>,
   calls |-> 0, last |-> "new", thrown |-> FALSE, prev |-> <<>>, arg |-> 0]

\* add_profile that never refuses a profile
LibAddProfileUnchecked(l, ncols, ls) ==
  [thrown |-> FALSE,
   profiles |-> Append(l.profiles,
                       [index |-> Len(l.profiles), num_cols |-> ncols,
                        logspace |-> ls, prior |-> Norm(1, l.num_profiles)])]

\* ProfileLibrary::add_profile for a profile of ncols columns whose
\* logspace flag is ls: whether it throws, and the components afterwards
LibAddProfile(l, ncols, ls) ==
  IF LibFull(Len(l.profiles), l.num_profiles) \/ ncols # l.num_cols
  THEN [thrown |-> TRUE, profiles |-> l.profiles]
  ELSE [thrown |-> FALSE,
        profiles |-> Append(l.profiles,
                            [index |-> Len(l.profiles), num_cols |-> ncols,
                             logspace |-> ls,
                             prior |-> Norm(1, l.num_profiles)])]

\* the bookkeeping of one more call on the library
LibCall(l, name, arg) ==
  [l EXCEPT !.calls = @ + 1, !.last = name, !.thrown = FALSE,
            !.prev = l.profiles, !.arg = arg]

\* lib.add_profile(profile)
LbAddProfile(ncols, ls) ==
  /\ lb.pc = "lib"
  /\ lb.calls < MaxLibCalls
  /\ LET r == LibAddProfile(lb, ncols, ls)
     IN  lb' = [LibCall(lb, "add", ncols) EXCEPT !.thrown = r.thrown,
                                                 !.profiles = r.profiles]
  /\ UNCHANGED <<emVars, funcVars, gb, pm, sq, io, cp, sp, al, fw>>

\* lib.clear()
LbClear ==
  /\ lb.pc = "lib"
  /\ lb.calls < MaxLibCalls
  /\ lb' = [LibCall(lb, "clear", 0) EXCEPT !.profiles = <<>>]
  /\ UNCHANGED <<emVars, funcVars, gb, pm, sq, io, cp, sp, al, fw>>

\* lib.transform_to_logspace() and lib.transform_to_linspace()
LbTransform(to_log) ==
  /\ lb.pc = "lib"
  /\ lb.calls < MaxLibCalls
  /\ lb' = IF lb.logspace = to_log
           THEN LibCall(lb, "transform", 0)
           ELSE [LibCall(lb, "transform", 0) EXCEPT
                   !.logspace = to_log,
                   !.profiles = [q \in DOMAIN lb.profiles |->
                                   [lb.profiles[q] EXCEPT !.logspace = to_log]]]
  /\ UNCHANGED <<emVars, funcVars, gb, pm, sq, io, cp, sp, al, fw>>

NextLibrary ==
  \/ \E ncols \in {1, 3}, ls \in BOOLEAN : LbAddProfile(ncols, ls)
  \/ LbClear
  \/ \E to_log \in BOOLEAN : LbTransform(to_log)

\* ------------------------------------------------------------------------
\* Profile and CountProfile: transforms and conversions
\* ------------------------------------------------------------------------
MaxProfCols == 2
MaxOps == 3

\* Profile::transform_to_logspace: an entry 0 is stored as +infinity
transform_to_logspace(p) ==
  IF ~p.logspace
  THEN [p EXCEPT
          !.data = [i \in DOMAIN p.data |-> [a \in Letters |->
                      IF p.data[i][a] = Zero THEN Log2(PosInf)
                      ELSE Log2(p.data[i][a])]],
          !.logspace = TRUE]
  ELSE p

\* Profile::transform_to_linspace
transform_to_linspace(p) ==
  IF p.logspace
  THEN [p EXCEPT
          !.data = [i \in DOMAIN p.data |-> [a \in Letters |->
                      Pow2(p.data[i][a])]],
          !.logspace = FALSE]
  ELSE p

\* the multiplication of convert_to_counts: data_[i][a] *= neff_[i]
TimesNeff(p) ==
  [p EXCEPT !.data = [i \in DOMAIN p.data |-> [a \in Letters |->
                        RMul(p.data[i][a], p.neff[i])]],
            !.has_counts = TRUE]

\* convert_to_counts that multiplies whatever the profile holds
convert_to_counts_again(p) ==
  LET islog == p.logspace
      q == IF islog THEN transform_to_linspace(p) ELSE p
      r == TimesNeff(q)
  IN  IF islog THEN transform_to_logspace(r) ELSE r

\* CountProfile::convert_to_counts
convert_to_counts(p) ==
  IF ~p.has_counts
  THEN LET islog == p.logspace
           q == IF islog THEN transform_to_linspace(p) ELSE p
           r == TimesNeff(q)
       IN  IF islog THEN transform_to_logspace(r) ELSE r
  ELSE p

\* CountProfile::convert_to_frequencies
convert_to_frequencies(p) ==
  IF p.has_counts
  THEN [p EXCEPT !.data = [i \in DOMAIN p.data |-> NormalizeCol(p.data[i], One)],
                 !.has_counts = FALSE]
  ELSE p

\* a column of relative frequencies, and a column of non-negative entries
FreqColumn(t) ==
  [a \in Letters |-> IF a = 0 THEN Norm(t, 4)
                     ELSE IF a = 1 THEN Norm(4 - t, 4) ELSE Zero]
EntryColumn(t) ==
  [a \in Letters |-> IF a = 0 THEN <<Zero, Norm(1, 2), Int2R(3)>>[t + 1]
                     ELSE Norm(1, 4)]
NeffOf(t) == <<One, Norm(3, 2)>>[t + 1]

\* a CountProfile of relative frequencies in linear space
CpCountProfile(W, ts, ns) ==
  LET data == [i \in 0 .. (W - 1) |-> FreqColumn(ts[i])]
  IN  [pc |-> "count", num_cols |-> W, logspace |-> FALSE, has_counts |-> FALSE,
       data |-> data, neff |-> [i \in 0 .. (W - 1) |-> NeffOf(ns[i])],
       orig |-> data, ops |-> <<>>, prev |-> [data |-> data, logspace |-> FALSE]]

\* a Profile in linear space
CpProfile(W, ts) ==
  LET data == [i \in 0 .. (W - 1) |-> EntryColumn(ts[i])]
  IN  [pc |-> "profile", num_cols |-> W, logspace |-> FALSE, has_counts |-> FALSE,
       data |-> data, neff |-> [i \in 0 .. (W - 1) |-> One],
       orig |-> data, ops |-> <<>>, prev |-> [data |-> data, logspace |-> FALSE]]

\* the bookkeeping of one more call on the profile
CpCall(p, q, name) ==
  [q EXCEPT !.ops = Append(p.ops, name),
            !.prev = [data |-> p.data, logspace |-> p.logspace]]

\* profile.convert_to_counts()
CpConvertToCounts ==
  /\ cp.pc = "count"
  /\ Len(cp.ops) < MaxOps
  /\ cp' = CpCall(cp, convert_to_counts(cp), "counts")
  /\ UNCHANGED <<emVars, funcVars, gb, pm, sq, io, lb, sp, al, fw>>

\* profile.convert_to_frequencies()
CpConvertToFrequencies ==
  /\ cp.pc = "count"
  /\ Len(cp.ops) < MaxOps
  /\ cp' = CpCall(cp, convert_to_frequencies(cp), "freqs")
  /\ UNCHANGED <<emVars, funcVars, gb, pm, sq, io, lb, sp, al, fw>>

\* profile.transform_to_logspace()
CpTransformToLogspace ==
  /\ cp.pc = "profile"
  /\ Len(cp.ops) < MaxOps
  /\ cp' = CpCall(cp, transform_to_logspace(cp), "log")
  /\ UNCHANGED <<emVars, funcVars, gb, pm, sq, io, lb, sp, al, fw>>

\* profile.transform_to_linspace()
CpTransformToLinspace ==
  /\ cp.pc = "profile"
  /\ Len(cp.ops) < MaxOps
  /\ cp' = CpCall(cp, transform_to_linspace(cp), "lin")
  /\ UNCHANGED <<emVars, funcVars, gb, pm, sq, io, lb, sp, al, fw>>

NextProfile ==
  \/ CpConvertToCounts
  \/ CpConvertToFrequencies
  \/ CpTransformToLogspace
  \/ CpTransformToLinspace

\* ------------------------------------------------------------------------
\* shared_ptr: objects, counters and pointees
\* ------------------------------------------------------------------------
MaxPtrs == 3      \* shared_ptr objects constructed in a run
MaxPtrOps == 4    \* calls in a run

PtrSlots == 1 .. MaxPtrs

\* no shared_ptr constructed yet; counters and pointees are numbered in the
\* order of their allocation, pointee 0 is NULL
PtrNew ==
  [pc |-> "ptrs", calls |-> 0, defaults |-> 0,
   objs |-> [o \in PtrSlots |-> [st |-> "none", p |-> 0, c |-> 0]],
   counters |-> <<>>, pointees |-> <<>>]

\* the live objects whose c_ is counter c, and those whose p_ is pointee q
RefsOfCounter(s, c) == {o \in PtrSlots : s.objs[o].st = "live" /\ s.objs[o].c = c}
RefsOfPointee(s, q) == {o \in PtrSlots : s.objs[o].st = "live" /\ s.objs[o].p = q}

\* if (!--*c_) { delete c_; delete p_; } for object o. A counter that was
\* deleted is read all the same: what the decrement finds there is any value,
\* z says whether it came out as zero.
PtrRelease(s, o, z) ==
  LET c == s.objs[o].c
      q == s.objs[o].p
      cnt == s.counters[c]
      there == cnt.deleted = 0
      zero == IF there THEN cnt.val - 1 = 0 ELSE z
  IN  [s EXCEPT
         !.counters[c] = [val |-> IF there THEN cnt.val - 1 ELSE cnt.val,
                          deleted |-> cnt.deleted + (IF zero THEN 1 ELSE 0),
                          stale |-> cnt.stale \/ ~there],
         !.pointees = IF zero /\ q # 0
                      THEN [@ EXCEPT ![q] = @ + 1] ELSE @]

\* ++*c_ for counter c
PtrAcquire(s, c) ==
  LET cnt == s.counters[c]
      there == cnt.deleted = 0
  IN  [s EXCEPT
         !.counters[c] = [val |-> IF there THEN cnt.val + 1 ELSE cnt.val,
                          deleted |-> cnt.deleted,
                          stale |-> cnt.stale \/ ~there]]

\* shared_ptr() : p_(NULL), c_(new long(0))
SpDefault(o) ==
  /\ sp.pc = "ptrs"
  /\ sp.calls < MaxPtrOps
  /\ sp.objs[o].st = "none"
  /\ sp' = [sp EXCEPT
              !.calls = @ + 1,
              !.defaults = @ + 1,
              !.counters = Append(@, [val |-> 0, deleted |-> 0, stale |-> FALSE]),
              !.objs[o] = [st |-> "live", p |-> 0, c |-> Len(sp.counters) + 1]]
  /\ UNCHANGED <<emVars, funcVars, gb, pm, sq, io, lb, cp, al, fw>>

\* shared_ptr(T* p) : p_(p), c_(new long(1)), p a new object
SpExplicit(o) ==
  /\ sp.pc = "ptrs"
  /\ sp.calls < MaxPtrOps
  /\ sp.objs[o].st = "none"
  /\ sp' = [sp EXCEPT
              !.calls = @ + 1,
              !.counters = Append(@, [val |-> 1, deleted |-> 0, stale |-> FALSE]),
              !.pointees = Append(@, 0),
              !.objs[o] = [st |-> "live", p |-> Len(sp.pointees) + 1,
                           c |-> Len(sp.counters) + 1]]
  /\ UNCHANGED <<emVars, funcVars, gb, pm, sq, io, lb, cp, al, fw>>

\* shared_ptr(const shared_ptr& other)
SpCopy(o, other) ==
  /\ sp.pc = "ptrs"
  /\ sp.calls < MaxPtrOps
  /\ sp.objs[o].st = "none"
  /\ sp.objs[other].st = "live"
  /\ LET s == [sp EXCEPT !.calls = @ + 1,
                         !.objs[o] = [st |-> "live", p |-> sp.objs[other].p,
                                      c |-> sp.objs[other].c]]
     IN  sp' = PtrAcquire(s, sp.objs[other].c)
  /\ UNCHANGED <<emVars, funcVars, gb, pm, sq, io, lb, cp, al, fw>>

\* ~shared_ptr()
SpDestroy(o, z) ==
  /\ sp.pc = "ptrs"
  /\ sp.calls < MaxPtrOps
  /\ sp.objs[o].st = "live"
  /\ sp' = [PtrRelease(sp, o, z) EXCEPT !.calls = @ + 1, !.objs[o].st = "dead"]
  /\ UNCHANGED <<emVars, funcVars, gb, pm, sq, io, lb, cp, al, fw>>

\* operator=(const shared_ptr& rhs)
SpAssign(o, rhs, z) ==
  /\ sp.pc = "ptrs"
  /\ sp.calls < MaxPtrOps
  /\ sp.objs[o].st = "live"
  /\ sp.objs[rhs].st = "live"
  /\ IF o # rhs
     THEN LET s == PtrRelease(sp, o, z)
              t == [s EXCEPT !.calls = @ + 1,
                             !.objs[o].p = sp.objs[rhs].p,
                             !.objs[o].c = sp.objs[rhs].c]
          IN  sp' = PtrAcquire(t, sp.objs[rhs].c)
     ELSE sp' = [sp EXCEPT !.calls = @ + 1]
  /\ UNCHANGED <<emVars, funcVars, gb, pm, sq, io, lb, cp, al, fw>>

NextPtr ==
  \/ \E o \in PtrSlots : SpDefault(o)
  \/ \E o \in PtrSlots : SpExplicit(o)
  \/ \E o, other \in PtrSlots : SpCopy(o, other)
  \/ \E o \in PtrSlots, z \in BOOLEAN : SpDestroy(o, z)
  \/ \E o, rhs \in PtrSlots, z \in BOOLEAN : SpAssign(o, rhs, z)

\* ------------------------------------------------------------------------
\* Alignment::init
\* ------------------------------------------------------------------------
MaxAliCols == 3

AliChars == {"A", "-", "?"}

\* the alphabet: 'A' is letter 0, '-' is the gap, '?' is no character of it
Gap == AlphabetSize + 1
Endgap == AlphabetSize + 2
AliValid(ch) == ch \in {"A", "-"}
AliCtoi(ch) == IF ch = "-" THEN Gap ELSE 0
match_chr(ch) == ch \in {"A", "-"}

\* the aligned sequences handed to init: up to two sequences of at most
\* MaxAliCols characters
AliRows == UNION {[1 .. n -> AliChars] : n \in 0 .. MaxAliCols}
AliInputs == UNION {[1 .. n -> AliRows] : n \in 0 .. 2}

\* the two loops that replace gap by endgap in one sequence
ReplaceLeading(r) ==
  [i \in DOMAIN r |-> IF \A j \in 1 .. i : r[j] = Gap THEN Endgap ELSE r[i]]
ReplaceTrailing(r) ==
  [i \in DOMAIN r |-> IF \A j \in i .. Len(r) : r[j] = Gap THEN Endgap ELSE r[i]]
\* the replacement at the front of a sequence only
EndGapsLeading(r) == ReplaceLeading(r)

EndGaps(r) == ReplaceTrailing(ReplaceLeading(r))

\* Alignment::init(headers, seqs): the exception it throws, or seqs_,
\* match_column_ and match_indexes
AliInit(num_headers, seqs) ==
  LET num_seqs == Len(seqs)
      num_cols == Len(seqs[1])
  IN  IF seqs = <<>> THEN [thrown |-> "no aligned sequences"]
      ELSE IF num_headers # num_seqs THEN [thrown |-> "unequal number"]
      ELSE IF \E k \in 2 .. num_seqs : Len(seqs[k]) # num_cols
      THEN [thrown |-> "length"]
      ELSE IF \E k \in 1 .. num_seqs : \E i \in 1 .. num_cols : ~AliValid(seqs[k][i])
      THEN [thrown |-> "invalid character"]
      ELSE LET row(k) == EndGaps([i \in 1 .. num_cols |-> AliCtoi(seqs[k][i])])
               match_column_ == [i \in 1 .. num_cols |-> match_chr(seqs[num_seqs][i])]
           IN  [thrown |-> "",
                seqs_ |-> [i \in 1 .. num_cols |-> [k \in 1 .. num_seqs |-> row(k)[i]]],
                match_column_ |-> match_column_,
                match_indexes |-> {i \in 1 .. num_cols : match_column_[i]}]

\* alignment.init(headers, seqs)
AlInit ==
  /\ al.pc = "input"
  /\ LET r == AliInit(al.num_headers, al.seqs)
     IN  al' = IF r.thrown # ""
               THEN [pc |-> "exception", num_headers |-> al.num_headers,
                     seqs |-> al.seqs, what |-> r.thrown]
               ELSE [pc |-> "aligned", num_headers |-> al.num_headers,
                     seqs |-> al.seqs, seqs_ |-> r.seqs_,
                     match_column_ |-> r.match_column_,
                     match_indexes |-> r.match_indexes]
  /\ UNCHANGED <<emVars, funcVars, gb, pm, sq, io, lb, cp, sp, fw>>

NextAli == AlInit

\* ------------------------------------------------------------------------
\* GetBlock over all blocks of a training set
\* ------------------------------------------------------------------------
MaxSplit == 9

\* a training set of 'size' items is to be cut into 'nblocks' <= 'size' blocks
InitSplit ==
  gb \in UNION {{[pc |-> "split", size |-> N, nblocks |-> B, b |-> 0,
                   blocks |-> <<>>] : B \in 1 .. N} : N \in 1 .. MaxSplit}

\* GetBlock(b, nblocks) for the next block b
SplitGetBlock ==
  /\ gb.pc = "split"
  /\ gb' = [gb EXCEPT !.blocks = Append(@, GetBlockOf(gb.size, gb.b, gb.nblocks)),
                      !.b = @ + 1,
                      !.pc = IF gb.b + 1 = gb.nblocks THEN "cut" ELSE "split"]
  /\ UNCHANGED <<emVars, funcVars, moreVars, pm, sq, io>>

NextSplit == SplitGetBlock

\* ------------------------------------------------------------------------
\* ForwardAlgorithm on ForwardBackwardMatrices
\* ------------------------------------------------------------------------
MaxFwLen == 2     \* length of the subject
MaxFwRuns == 2    \* runs on the same matrices

FwStates == 0 .. 1

\* an HMM of two states with its emission probabilities on a subject:
\* prior of the states, weight tr[k][l] of the transition from k to l, and
\* 2^emission(hmm[k], subject, i)
FwHmm(p, t, u) ==
  [prior |-> [k \in FwStates |-> IF k = 0 THEN Norm(p, 4) ELSE Norm(4 - p, 4)],
   tr |-> [k \in FwStates |-> [l \in FwStates |->
             IF t = 0 THEN Norm(1, 2)
             ELSE IF k = 0 THEN (IF l = 0 THEN One ELSE Zero)
             ELSE (IF l = 0 THEN Norm(1, 4) ELSE Norm(3, 4))]],
   em |-> [i \in 0 .. (MaxFwLen - 1) |-> [k \in FwStates |->
             Pow2(Log2(Norm(1 + ((i + k + u) % 3), 4)))]]]

\* ForwardBackwardMatrices(slen, nstates)
ForwardBackwardMatrices(slen) ==
  [f |-> [i \in 0 .. (slen - 1) |-> [k \in FwStates |-> Zero]],
   e |-> [i \in 0 .. (slen - 1) |-> [k \in FwStates |-> Zero]],
   s |-> [i \in 0 .. (slen - 1) |-> Zero],
   log_likelihood |-> LgZero]

\* the initialization of ForwardAlgorithm: row 0, m.s[0] += m.f[0][k]
FwInitialization(hmm, m) ==
  LET e0 == [k \in FwStates |-> hmm.em[0][k]]
      f0 == [k \in FwStates |-> RMul(hmm.prior[k], e0[k])]
      s0 == RAdd(m.s[0], RSumTo(f0, 2))
      scale_fac == RDiv(One, s0)
  IN  [f |-> [m.f EXCEPT ![0] = [k \in FwStates |-> RMul(f0[k], scale_fac)]],
       e |-> [m.e EXCEPT ![0] = e0],
       s |-> [m.s EXCEPT ![0] = s0],
       log_likelihood |-> LgAdd(LgZero, Log2(s0))]

\* the recursion of ForwardAlgorithm up to row i
RECURSIVE FwRecursion(_, _, _)
FwRecursion(hmm, m, i) ==
  IF i = 0 THEN FwInitialization(hmm, m)
  ELSE LET r == FwRecursion(hmm, m, i - 1)
           ei == [l \in FwStates |-> hmm.em[i][l]]
           fi == [l \in FwStates |->
                    RMul(RSumTo([k \in FwStates |->
                                   RMul(r.f[i - 1][k], hmm.tr[k][l])], 2),
                         ei[l])]
           si == RSumTo(fi, 2)
           scale_fac == RDiv(One, si)
       IN  [f |-> [r.f EXCEPT ![i] = [l \in FwStates |-> RMul(fi[l], scale_fac)]],
            e |-> [r.e EXCEPT ![i] = ei],
            s |-> [r.s EXCEPT ![i] = si],
            log_likelihood |-> LgAdd(r.log_likelihood, Log2(si))]

\* ForwardAlgorithm(hmm, subject, emission, fbm)
ForwardAlgorithm(hmm, length, m) == FwRecursion(hmm, m, length - 1)

\* ForwardAlgorithm(hmm, subject, emission, &fbm) is called
FwRun ==
  /\ fw.pc = "fw"
  /\ fw.runs < MaxFwRuns
  /\ LET m == ForwardAlgorithm(fw.hmm, fw.length, fw.m)
     IN  fw' = [fw EXCEPT !.m = m, !.runs = @ + 1,
                          !.first = IF fw.runs = 0 THEN m ELSE @]
  /\ UNCHANGED <<emVars, funcVars, gb, pm, sq, io, lb, cp, sp, al>>

NextForward == FwRun

\* ------------------------------------------------------------------------
\* Specifications
\* ------------------------------------------------------------------------
FuncOff ==
  /\ lf = LfOff
  /\ cf = CfOff
  /\ crf_ = CrfZero
  /\ df_pc = "off"
  /\ df = DfIdle
  /\ s_io = DerivCrfFuncIO
  /\ wk = WkIdle

EMOff ==
  /\ em_pc = "off"
  /\ data_ = CorpusSame
  /\ lib_ = [comp |-> LibUniform, iterations |-> 0]
  /\ ClusteringInit
  /\ epsilon_ = One
  /\ log_likelihood_ = <<>>
  /\ block = <<0, 0>>
  /\ bi = 0
  /\ p_zn = [k \in Profiles |-> Zero]
  /\ sum_zn = Zero

\* a ContextLibFunc is evaluated
InitContextLibFunc ==
  /\ InitLf
  /\ cf = CfOff
  /\ crf_ = CrfZero
  /\ df_pc = "off"
  /\ df = DfIdle
  /\ s_io = DerivCrfFuncIO
  /\ wk = WkIdle

\* a CrfFunc is evaluated
InitCrfFunc ==
  /\ lf = LfOff
  /\ cf = CfStart
  /\ crf_ \in Crfs
  /\ df_pc = "off"
  /\ df = DfIdle
  /\ s_io = DerivCrfFuncIO
  /\ wk = WkIdle

\* a DerivCrfFunc and its DerivCrfFuncIO have been constructed
InitDerivCrfFunc ==
  /\ lf = LfOff
  /\ cf = CfOff
  /\ crf_ \in Crfs
  /\ df_pc = "idle"
  /\ df = DfIdle
  /\ s_io = DerivCrfFuncIO
  /\ wk = WkIdle

InitFunc ==
  /\ EMOff
  /\ AuxOff
  /\ (InitContextLibFunc \/ InitCrfFunc \/ InitDerivCrfFunc)

NextFunc ==
  \/ \E n \in Train : LfItem(n)
  \/ LfReturn
  \/ \E n \in Train : CfItem(n)
  \/ CfReturn
  \/ \E nblocks \in 1 .. MaxBlocks : \E b \in 0 .. (nblocks - 1) : DfBegin(b, nblocks)
  \/ \E n \in Train : DfItem(n)
  \/ DfAccumulate
  \/ \E k \in Profiles : GradientStep(k)
  \/ DfPriorGradient

\* a Clustering has been constructed
InitClustering == InitEM /\ FuncOff /\ AuxOff

SpecEM == InitClustering /\ [][NextEM]_vars

SpecFunc == InitFunc /\ [][NextFunc]_vars

\* the sum of the prior gradients of all blocks is formed
InitPriorBlocks ==
  /\ EMOff
  /\ FuncOff
  /\ InitBlocks
  /\ pm = [pc |-> "off"]
  /\ sq = [pc |-> "off"]
  /\ io = [pc |-> "off"]
  /\ MoreOff

SpecBlocks == InitPriorBlocks /\ [][NextBlocks]_vars

\* a ProfileMatcher has been constructed
InitMatcher ==
  /\ EMOff
  /\ FuncOff
  /\ gb = [pc |-> "off"]
  /\ pm = PmNew
  /\ sq = [pc |-> "off"]
  /\ io = [pc |-> "off"]
  /\ MoreOff

SpecMatcher == InitMatcher /\ [][NextMatcher]_vars

\* the block statistics of a Clustering on sequences have been reset
InitSeqStats ==
  /\ EMOff
  /\ FuncOff
  /\ gb = [pc |-> "off"]
  /\ pm = [pc |-> "off"]
  /\ sq = SeqStatsNew
  /\ io = [pc |-> "off"]
  /\ MoreOff

SpecSeqStats == InitSeqStats /\ [][NextSeqStats]_vars

\* nothing has been written or read yet
InitIO ==
  /\ EMOff
  /\ FuncOff
  /\ gb = [pc |-> "off"]
  /\ pm = [pc |-> "off"]
  /\ sq = [pc |-> "off"]
  /\ io = IoNew
  /\ MoreOff

NextIO == NextCountIO \/ NextBodyIO \/ NextCrfIO \/ NextLibIO

SpecIO == InitIO /\ [][NextIO]_vars

\* a ProfileLibrary has been constructed
InitLibrary ==
  /\ EMOff
  /\ FuncOff
  /\ gb = [pc |-> "off"]
  /\ pm = [pc |-> "off"]
  /\ sq = [pc |-> "off"]
  /\ io = [pc |-> "off"]
  /\ lb \in {LibNew(n, w) : n \in 0 .. MaxLibSize, w \in {1, 3}}
  /\ cp = [pc |-> "off"]
  /\ sp = [pc |-> "off"]
  /\ al = [pc |-> "off"]
  /\ fw = [pc |-> "off"]

SpecLibrary == InitLibrary /\ [][NextLibrary]_vars

\* a CountProfile or a Profile has been constructed
InitProfile ==
  /\ EMOff
  /\ FuncOff
  /\ gb = [pc |-> "off"]
  /\ pm = [pc |-> "off"]
  /\ sq = [pc |-> "off"]
  /\ io = [pc |-> "off"]
  /\ lb = [pc |-> "off"]
  /\ cp \in UNION {{CpCountProfile(W, ts, ns) :
                       ts \in [0 .. (W - 1) -> 0 .. 2],
                       ns \in [0 .. (W - 1) -> 0 .. 1]}
                    \cup {CpProfile(W, ts) : ts \in [0 .. (W - 1) -> 0 .. 2]} :
                   W \in 1 .. MaxProfCols}
  /\ sp = [pc |-> "off"]
  /\ al = [pc |-> "off"]
  /\ fw = [pc |-> "off"]

SpecProfile == InitProfile /\ [][NextProfile]_vars

\* no shared_ptr has been constructed yet
InitPtr ==
  /\ EMOff
  /\ FuncOff
  /\ gb = [pc |-> "off"]
  /\ pm = [pc |-> "off"]
  /\ sq = [pc |-> "off"]
  /\ io = [pc |-> "off"]
  /\ lb = [pc |-> "off"]
  /\ cp = [pc |-> "off"]
  /\ sp = PtrNew
  /\ al = [pc |-> "off"]
  /\ fw = [pc |-> "off"]

SpecPtr == InitPtr /\ [][NextPtr]_vars

\* headers and aligned sequences have been parsed
InitAli ==
  /\ EMOff
  /\ FuncOff
  /\ gb = [pc |-> "off"]
  /\ pm = [pc |-> "off"]
  /\ sq = [pc |-> "off"]
  /\ io = [pc |-> "off"]
  /\ lb = [pc |-> "off"]
  /\ cp = [pc |-> "off"]
  /\ sp = [pc |-> "off"]
  /\ al \in {[pc |-> "input", num_headers |-> h, seqs |-> seqs] :
              seqs \in AliInputs, h \in 1 .. 2}
  /\ fw = [pc |-> "off"]

SpecAli == InitAli /\ [][NextAli]_vars

\* a training set is to be cut into blocks
InitGetBlock ==
  /\ EMOff
  /\ FuncOff
  /\ InitSplit
  /\ pm = [pc |-> "off"]
  /\ sq = [pc |-> "off"]
  /\ io = [pc |-> "off"]
  /\ MoreOff

SpecGetBlock == InitGetBlock /\ [][NextSplit]_vars

\* ForwardBackwardMatrices have been constructed for a subject and an HMM
InitForward ==
  /\ EMOff
  /\ FuncOff
  /\ gb = [pc |-> "off"]
  /\ pm = [pc |-> "off"]
  /\ sq = [pc |-> "off"]
  /\ io = [pc |-> "off"]
  /\ lb = [pc |-> "off"]
  /\ cp = [pc |-> "off"]
  /\ sp = [pc |-> "off"]
  /\ al = [pc |-> "off"]
  /\ fw \in {[pc |-> "fw", hmm |-> FwHmm(p, t, u), length |-> n, runs |-> 0,
               m |-> ForwardBackwardMatrices(n),
               first |-> ForwardBackwardMatrices(n)] :
              p \in 1 .. 3, t \in 0 .. 1, u \in 0 .. 2, n \in 1 .. MaxFwLen}

SpecForward == InitForward /\ [][NextForward]_vars

Init ==
  InitClustering \/ InitFunc \/ InitPriorBlocks \/ InitMatcher \/ InitSeqStats
    \/ InitIO \/ InitLibrary \/ InitProfile \/ InitPtr
    \/ InitAli \/ InitGetBlock \/ InitForward

Next ==
  NextEM \/ NextFunc \/ NextBlocks \/ NextMatcher \/ NextSeqStats \/ NextIO
    \/ NextLibrary \/ NextProfile \/ NextPtr
    \/ NextAli \/ NextSplit \/ NextForward

Spec == Init /\ [][Next]_vars

\* ------------------------------------------------------------------------
\* Properties of the EM driver
\* ------------------------------------------------------------------------
\* a training item of the current block has been processed
ItemDone == em_pc \in {"estep", "update", "mstep"} /\ Len(log_likelihood_) > 0

\* the state right after a MaximizationStep
AfterMStep == em_pc = "idle" /\ lib_.iterations > 0

PriorSum(comp) == RSumTo([k \in Profiles |-> comp[k].prior], NumProfiles)

\* sum over the alphabet of 2^value of a log-space column
ColumnSum(col) == RSumTo([a \in Letters |-> Pow2(col[a])], AlphabetSize)

ZeroProfile == [j \in Cols |-> [a \in Letters |-> Zero]]

HasNaN(p) == p.prior = NaN \/ \E j \in Cols, a \in Letters : p.prof[j][a] = NaN

\* C2: after every MaximizationStep the priors of the K components sum to 1.
C2_PriorsSumToOne == AfterMStep => PriorSum(lib_.comp) = One

\* C3: after every MaximizationStep every column of every component is a
\* normalised distribution (the 2^value entries sum to 1).
C3_ColumnsNormalised ==
  AfterMStep =>
    \A k \in Profiles, j \in Cols : ColumnSum(lib_.comp[k].prof[j]) = One

\* C4: update_sufficient_statistics sets every global prior to
\* eta * old + block and every global entry [j][a] to eta * old + block,
\* with eta = 1 - epsilon_, and the global statistics hold nothing else.
C4_BlendStep ==
  (em_pc = "update" /\ em_pc' = "mstep") =>
    /\ DOMAIN profile_stats_' = Profiles
    /\ \A k \in Profiles :
         /\ DOMAIN profile_stats_'[k] = {"prior", "prof"}
         /\ profile_stats_'[k].prior =
              RAdd(RMul(RSub(One, epsilon_), profile_stats_[k].prior),
                   profile_stats_block_[k].prior)
         /\ \A j \in Cols, a \in Letters :
              profile_stats_'[k].prof[j][a] =
                RAdd(RMul(RSub(One, epsilon_), profile_stats_[k].prof[j][a]),
                     profile_stats_block_[k].prof[j][a])

C4_Blend == [][C4_BlendStep]_vars

\* C4 witness: a merge into non-empty older statistics with 0 < eta < 1.
C4_Witness ==
  /\ em_pc = "mstep"
  /\ lib_.iterations >= 1
  /\ epsilon_ = <<1, 2>>
  /\ \E k \in Profiles :
       RLess(Zero, profile_stats_[k].prior) /\ profile_stats_[k].prior # One

\* C5: at the start of every ExpectationStep every block-level accumulator
\* (prior and all W x A entries) is zero.
C5_BlockStatsZeroAtStart ==
  (em_pc = "idle" \/ (em_pc = "estep" /\ bi = block[1])) =>
    \A k \in Profiles :
      /\ profile_stats_block_[k].prior = Zero
      /\ profile_stats_block_[k].prof = ZeroProfile

\* C5 witness: an ExpectationStep that starts after an earlier one.
C5_Witness ==
  /\ em_pc = "estep"
  /\ bi = block[1]
  /\ lib_.iterations >= 1
  /\ \E k \in Profiles : RLess(Zero, profile_stats_[k].prior)

\* the accumulated emission statistics of a component have zero mass
ZeroMass(p) == p.prof = ZeroProfile

MStepTaken == em_pc = "mstep" /\ em_pc' = "idle"

\* C6 as claimed: a component with zero-mass statistics leaves the
\* MaximizationStep with its library entry (prior and profile) unchanged.
C6_EntryUnchangedStep ==
  MStepTaken =>
    \A k \in Profiles :
      ZeroMass(profile_stats_[k]) => lib_'.comp[k] = lib_.comp[k]

C6_EntryUnchanged == [][C6_EntryUnchangedStep]_vars

\* C6 as amended: a component with zero-mass statistics keeps its emission
\* profile, no entry of it is divided by the zero column sum, and its prior
\* is overwritten with its prior statistic times fac.
C6_ProfileUnchangedStep ==
  MStepTaken =>
    \A k \in Profiles :
      ZeroMass(profile_stats_[k]) =>
        /\ lib_'.comp[k].prof = lib_.comp[k].prof
        /\ Normalize(profile_stats_[k].prof, One).prof = ZeroProfile
        /\ lib_'.comp[k].prior =
             RMul(profile_stats_[k].prior,
                  RDiv(One, PriorSum(profile_stats_)))

C6_ProfileUnchanged == [][C6_ProfileUnchangedStep]_vars

\* C6 witness: a MaximizationStep has skipped a component without evidence
\* while another component was replaced.
C6_Witness ==
  /\ AfterMStep
  /\ \E k, l \in Profiles :
       /\ ZeroMass(profile_stats_[k])
       /\ lib_.comp[k].prior = Zero
       /\ ~ZeroMass(profile_stats_[l])

\* C7 scenario: batch EM (one block, no memory) on a corpus of identical
\* one-letter-per-column windows, library with positive priors.
C7_Scenario ==
  /\ MStepTaken
  /\ data_ = CorpusSame
  /\ block = <<0, NumData>>
  /\ epsilon_ = One
  /\ NumProfiles >= 2
  /\ \A k \in Profiles : RLess(Zero, lib_.comp[k].prior)

IsDataColumn(col, j) == \A a \in Letters : Pow2(col[a]) = Int2R(SameWindow[j][a])

\* C7 as claimed: exactly one component ends with prior 1 and the data
\* column as emission column, all others keep their emissions.
C7_OneCapturesStep ==
  C7_Scenario =>
    \E k \in Profiles :
      /\ lib_'.comp[k].prior = One
      /\ \A j \in Cols : IsDataColumn(lib_'.comp[k].prof[j], j)
      /\ \A l \in Profiles \ {k} :
           /\ lib_'.comp[l].prior # One
           /\ lib_'.comp[l].prof = lib_.comp[l].prof

C7_OneCaptures == [][C7_OneCapturesStep]_vars

\* every entry of the library is a positive probability (finite in log-space)
AllPositive(comp) ==
  \A k \in Profiles, j \in Cols, a \in Letters :
    RLess(Zero, Pow2(comp[k].prof[j][a]))

\* C7 as amended: on a library whose entries are all positive, every
\* component ends with the data column as its emission column and with its
\* posterior P(z=k|x) as prior, and the priors sum to 1.
C7_AllCaptureStep ==
  (C7_Scenario /\ AllPositive(lib_.comp)) =>
    LET un == Unnormalized(lib_.comp, SameWindow)
        pp == DivideBy(un, RSumTo(un, NumProfiles))
    IN  /\ \A k \in Profiles :
             /\ \A j \in Cols : IsDataColumn(lib_'.comp[k].prof[j], j)
             /\ lib_'.comp[k].prior = pp[k]
        /\ PriorSum(lib_'.comp) = One

C7_AllCapture == [][C7_AllCaptureStep]_vars

\* C7 witness: such a scan has ended with unequal priors, none of them 1.
C7_Witness ==
  /\ AfterMStep
  /\ lib_.iterations = 1
  /\ data_ = CorpusSame
  /\ block = <<0, NumData>>
  /\ epsilon_ = One
  /\ \A k \in Profiles :
       /\ RLess(Zero, lib_.comp[k].prior)
       /\ \A j \in Cols : IsDataColumn(lib_.comp[k].prof[j], j)
  /\ \E k, l \in Profiles : lib_.comp[k].prior # lib_.comp[l].prior

\* C8: when the normaliser of a training item is zero the E-step aborts;
\* the posteriors, block statistics and log-likelihood never take up the
\* result of the division by zero or log2(0).
C8_ZeroSumAborts ==
  (ItemDone /\ sum_zn = Zero) =>
    /\ em_pc = "aborted"
    /\ \A k \in Profiles : p_zn[k] # NaN /\ ~HasNaN(profile_stats_block_[k])
    /\ \A i \in 1 .. Len(log_likelihood_) : log_likelihood_[i] # Log2(Zero)


\* ------------------------------------------------------------------------
\* Properties of the functions of func.h
\* ------------------------------------------------------------------------
VectorSum(v) == RSumTo(v, AlphabetSize)

\* C1: every posterior vector over the K components or states sums to 1:
\* p_zn after 'p_zn /= sum' in Clustering::ExpectationStep, and pp after the
\* log-sum-exp normalisation in CrfFunc::operator() and DerivCrfFunc::df.
C1_PosteriorsSumToOne ==
  /\ ItemDone => RSumTo(p_zn, NumProfiles) = One
  /\ \A n \in cf.done : RSumTo(cf.pp[n], NumProfiles) = One
  /\ \A m \in DOMAIN df.mpp : RSumTo(df.mpp[m], NumProfiles) = One

\* C9: in ContextLibFunc::operator(), whenever every pc_k sums to 1, the
\* mixed pseudocount vector pa of every training window handled so far sums
\* to 1, whatever its centre letter and whatever tau.
C9_MixedPseudocountsSumToOne ==
  (\A k \in Profiles : VectorSum(lf.lib[k].pc) = One)
    => \A n \in lf.done : VectorSum(lf.pa[n]) = One

Increasing(order) ==
  \A i, j \in 1 .. Len(order) : i < j => order[i] < order[j]

\* C11: the log-likelihood of a block is reduced in a fixed order, the
\* items of each thread in index order and the threads in thread-id order,
\* so the additions reach the accumulator in increasing item order both in
\* ContextLibFunc::operator() and in DerivCrfFunc::df.
C11_FixedReductionOrder ==
  /\ Increasing(lf.order)
  /\ Increasing(df.order)


\* C12: for B in {1, 2, 3} blocks the prior gradients of the blocks
\* GetBlock(b, B), b = 0 .. B-1, add up entry by entry to the prior gradient
\* of the whole training set GetBlock(0, 1), and the fractions add up to 1.
C12_BlockGradientsAddUp ==
  (gb.pc = "done" /\ gb.nblocks \in {1, 2, 3}) =>
    /\ gb.sum = CalculatePriorGradient(GetBlockOf(gb.size, 0, 1), gb.crf)
    /\ gb.fracs = One

\* three blocks of unequal size over a CRF with non-zero weights
C12_Witness ==
  /\ gb.pc = "done"
  /\ gb.nblocks = 3
  /\ gb.size % 3 # 0
  /\ gb.size > 3
  /\ \E i \in DOMAIN gb.sum : gb.sum[i] # Zero


\* the CRF with every pseudocount weight replaced by q
WithPcWeights(crf, q) ==
  [k \in Profiles |->
     CrfState(crf[k].bias_weight, crf[k].context_weights,
              [a \in Letters |-> q])]

\* df has returned at least once
DfReturned == df_pc = "idle" /\ df.ncalls > 0

\* C13: the pseudocount weights take no part in the Gaussian prior: the
\* prior that df adds is the prior of the CRF with its pseudocount weights
\* replaced by any other value, and every entry of the prior gradient at a
\* pseudocount-weight position is 0.
C13_PcWeightsNotRegularised ==
  DfReturned =>
    /\ \A q \in {-1, 0, 2} :
         s_io.prior.terms[Len(s_io.prior.terms)] =
           RMul(df.block.frac, CalculatePrior(WithPcWeights(crf_, q)))
    /\ \A k \in Profiles, a \in Letters :
         s_io.grad_prior[k * (1 + NumCols * AlphabetSize + AlphabetSize)
                         + 1 + NumCols * AlphabetSize + a] = Zero

\* df has returned for a CRF with non-zero pseudocount weights and a
\* non-empty block; the prior and its gradient are not zero
C13_Witness ==
  /\ DfReturned
  /\ df.block.size > 0
  /\ \E k \in Profiles, a \in Letters : crf_[k].pc_weights[a] # 0
  /\ s_io.prior.terms[Len(s_io.prior.terms)] # Zero
  /\ \E i \in DOMAIN s_io.grad_prior : s_io.grad_prior[i] # Zero


\* all states have zero bias and context weights and the uniform
\* pseudocount vector, and every target of the block is uniform
C14_Scenario ==
  /\ \A k \in Profiles :
       /\ crf_[k].bias_weight = 0
       /\ \A j \in Cols, a \in Letters : crf_[k].context_weights[j][a] = 0
       /\ \A a \in Letters : crf_[k].pc[a] = <<1, AlphabetSize>>
  /\ \A n \in df.block.beg .. (df.block.end - 1) :
       \A a \in Letters : trainset[n].y[a] = <<1, AlphabetSize>>

\* C14: with zero bias and context weights, uniform pseudocounts and uniform
\* targets, df yields the posterior 1/K for every state and a likelihood
\* gradient that is 0 in every entry.
C14_UniformGivesZeroGradient ==
  (DfReturned /\ C14_Scenario) =>
    /\ \A m \in DOMAIN df.mpp : \A k \in Profiles :
         df.mpp[m][k] = <<1, NumProfiles>>
    /\ \A i \in DOMAIN s_io.grad_loglike : s_io.grad_loglike[i] = Zero

\* df has returned in that scenario for a non-empty block
C14_Witness ==
  /\ DfReturned
  /\ C14_Scenario
  /\ df.block.size > 0
  /\ DOMAIN df.mpp # {}
  /\ wk.writes # {}


\* a context-weight index that thread k wrote belongs to a window position
\* of one of its training points that does not hold 'any'
CtxWriteFromLetter(k, idx) ==
  LET i1 == StateOffset(k) + 1
  IN  (i1 <= idx /\ idx < i1 + wlen * AlphabetSize) =>
        \E n \in df.block.beg .. (wk.n[k] - 1), j \in 0 .. (wlen - 1) :
          /\ trainset[n].x[j] # kAny
          /\ idx = i1 + j * AlphabetSize + trainset[n].x[j]

\* C15: a window position that holds 'any' contributes nothing, and no
\* profile entry is read or written at the 'any' index: in the emission
\* score of a sequence, in the E-step accumulation of a sequence and in the
\* context-weight gradient of the CRF.
C15_AnyContributesNothing ==
  /\ (pm.pc = "scored" /\ pm.kind = "seq") =>
       \A e \in pm.entries : e[2] # kAny
  /\ sq.pc = "run" =>
       /\ \A e \in sq.touched : e[2] # kAny
       /\ sq.behind = {}
  /\ df_pc = "grad" =>
       \A v \in wk.writes : CtxWriteFromLetter(v[1], v[2])

\* C16: for every odd window length W, subject length L >= 1 and index in
\* 0 .. L-1, the emission score reads only subject columns i in 0 .. L-1 and
\* only window columns and weights j = i - index + center in 0 .. W-1;
\* window columns outside the subject are skipped.
C16_ReadsInsideSubjectAndWindow ==
  pm.pc = "scored" =>
    /\ \A i \in pm.subj : 0 <= i /\ i <= pm.L - 1
    /\ \A j \in pm.win : 0 <= j /\ j <= pm.W - 1
    /\ pm.win = {i - pm.index + (pm.W - 1) \div 2 : i \in pm.subj}

\* a weighted score whose window overhangs the subject on both sides
C16_Witness ==
  /\ pm.pc = "scored"
  /\ pm.w # <<>>
  /\ pm.W >= 3
  /\ pm.subj # {}
  /\ pm.index - (pm.W - 1) \div 2 < 0
  /\ pm.index + (pm.W - 1) \div 2 > pm.L - 1
  /\ Cardinality(pm.win) < pm.W

\* C17: init_weights rejects every length that is not odd with an exception
\* before any weight is stored, and for every odd length assigns all W
\* weights: w[center] = weight_center and
\* w[center - i] = w[center + i] = weight_center * weight_decay^i.
C17_InitWeights ==
  /\ (pm.pc = "exception") <=> (pm.pc # "new" /\ pm.pc # "off" /\ pm.len % 2 # 1
                                 /\ pm.kind = "none")
  /\ pm.pc = "exception" => pm.w = <<>>
  /\ pm.pc = "ready" =>
       LET center == (pm.len - 1) \div 2
       IN  /\ DOMAIN pm.w = 0 .. (pm.len - 1)
           /\ pm.w[center] = pm.wc
           /\ \A i \in 1 .. center :
                /\ pm.w[center - i] = RMul(pm.wc, RPow(pm.decay, i))
                /\ pm.w[center + i] = RMul(pm.wc, RPow(pm.decay, i))

\* weights that decay have been stored for a window of three or more columns
C17_Witness ==
  /\ pm.pc = "ready"
  /\ pm.len >= 3
  /\ pm.decay # One
  /\ pm.w[0] # pm.w[(pm.len - 1) \div 2]


\* C18: for a CountProfile, write, read and write again gives the text of
\* the first write: header fields with has_counts, every column record with
\* its fixed-point and '*' entries, the N_eff of each column and the '//'
\* terminator, in linear and in log space.
C18_CountProfileRoundTrip ==
  io.pc # "off" /\ io.pc # "new" /\ io.kind = kClassID =>
    /\ io.pc # "exception"
    /\ io.pc = "rewritten" => io.text2 = io.text

\* C19: CRFState::Read of a record that CRFState::Write produced gives a
\* state with the same index, number of columns, context weights and
\* pseudocount weights; the PC row and the '//' end marker are recognised.
C19_CrfStateReadsWhatItWrote ==
  io.pc # "off" /\ io.pc # "new" /\ io.kind = "CRFState" =>
    /\ io.pc # "exception"
    /\ io.pc = "read" =>
         /\ io.got.index = io.obj.index
         /\ io.got.num_cols = io.obj.num_cols
         /\ io.got.weights = io.obj.weights
         /\ io.got.pc = io.obj.pc
         /\ ~io.got.outside

\* C20: ProfileLibrary::read raises an error whenever the number of profile
\* records in the input differs from the declared num_profiles, whether the
\* input holds fewer or more records than declared.
C20_RecordCountChecked ==
  (io.pc \in {"read", "exception"} /\ io.kind = "ProfileLibrary") =>
    (io.records # io.declared => io.pc = "exception")

\* C21: reading a profile body raises a 'Bad format' error unless the
\* record holds exactly one column line for each column 1 .. num_cols; a
\* record with a missing, repeated or out-of-range column number is rejected
\* and never causes a write outside the profile matrix.
C21_BodyColumnsChecked ==
  (io.pc \in {"read", "exception"} /\ io.kind = "body") =>
    /\ io.pc = "read" <=> io.cols = [n \in 1 .. io.num_cols |-> n]
    /\ ~io.outside

\* C22: after any sequence of add_profile and clear calls the library holds
\* at most num_profiles components; add_profile on a full library, or with a
\* profile whose column count differs from num_cols, raises an error and
\* leaves the stored components unchanged.
C22_LibraryNeverOverfull ==
  lb.pc = "lib" =>
    /\ Len(lb.profiles) <= lb.num_profiles
    /\ (lb.last = "add" /\ (Len(lb.prev) = lb.num_profiles \/ lb.arg # lb.num_cols)) =>
         lb.thrown /\ lb.profiles = lb.prev

\* add_profile has been refused on a full library that holds components
C22_Witness ==
  /\ lb.pc = "lib"
  /\ lb.last = "add"
  /\ lb.thrown
  /\ lb.arg = lb.num_cols
  /\ Len(lb.profiles) = lb.num_profiles
  /\ lb.num_profiles >= 2

\* C28: after any sequence of add_profile, clear, transform_to_logspace and
\* transform_to_linspace calls, the logspace flag of the library agrees with
\* the logspace flag of every component it holds.
C28_LogspaceFlagsAgree ==
  lb.pc = "lib" =>
    \A q \in DOMAIN lb.profiles : lb.profiles[q].logspace = lb.logspace

\* C23: after any sequence of convert_to_counts and convert_to_frequencies on
\* a CountProfile whose columns initially sum to 1 with N_eff[i] >= 1: when
\* has_counts is false every column sums to 1, and when has_counts is true
\* every entry equals the corresponding frequency times N_eff[i].
C23_CountsAndFrequencies ==
  cp.pc = "count" =>
    /\ ~cp.has_counts =>
         \A i \in DOMAIN cp.data : RSumTo(cp.data[i], AlphabetSize) = One
    /\ cp.has_counts =>
         \A i \in DOMAIN cp.data : \A a \in Letters :
           cp.data[i][a] = RMul(cp.orig[i][a], cp.neff[i])

\* counts made a second time, after a conversion back to frequencies, with a
\* diversity other than 1
C23_Witness ==
  /\ cp.pc = "count"
  /\ cp.ops = <<"counts", "freqs", "counts">>
  /\ cp.has_counts
  /\ \E i \in DOMAIN cp.data : cp.neff[i] # One /\ cp.data[i] # cp.orig[i]

\* C29: for a linear-space Profile with non-negative entries,
\* transform_to_logspace followed by transform_to_linspace restores every
\* entry, an exact 0 included; each transform changes nothing when the
\* profile is already in the target space.
C29_TransformRoundTrip ==
  cp.pc = "profile" =>
    /\ cp.ops = <<"log", "lin">> => cp.data = cp.orig
    /\ \A n \in DOMAIN cp.ops :
         (n = Len(cp.ops) /\ cp.prev.logspace = (cp.ops[n] = "log")) =>
           cp.data = cp.prev.data /\ cp.logspace = cp.prev.logspace

\* C24: the counter of a shared_ptr equals the number of live shared_ptr
\* objects that refer to it; the pointee and the counter are deleted exactly
\* once, when the last such object is destroyed or reassigned, and neither is
\* accessed after it was deleted.
C24_CounterCountsLiveObjects ==
  sp.pc = "ptrs" =>
    /\ \A c \in DOMAIN sp.counters :
         /\ sp.counters[c].deleted = 0 =>
              sp.counters[c].val = Cardinality(RefsOfCounter(sp, c))
         /\ sp.counters[c].deleted = (IF RefsOfCounter(sp, c) = {} THEN 1 ELSE 0)
         /\ ~sp.counters[c].stale
    /\ \A q \in DOMAIN sp.pointees :
         sp.pointees[q] = (IF RefsOfPointee(sp, q) = {} THEN 1 ELSE 0)

\* C25: after Alignment::init, every gap of a sequence that lies in its run
\* of leading gaps or in its run of trailing gaps is stored as endgap, and
\* every gap with a residue before it and a residue after it is stored as an
\* ordinary gap.
C25_EndGapsAtTheEnds ==
  al.pc = "aligned" =>
    \A k \in DOMAIN al.seqs : \A i \in DOMAIN al.seqs[k] :
      al.seqs[k][i] = "-" =>
        LET before == \E j \in 1 .. (i - 1) : al.seqs[k][j] # "-"
            after == \E j \in (i + 1) .. Len(al.seqs[k]) : al.seqs[k][j] # "-"
        IN  al.seqs_[i][k] = (IF before /\ after THEN Gap ELSE Endgap)

\* an alignment with a gap between residues in one sequence and gaps at both
\* ends of the other
C25_Witness ==
  /\ al.pc = "aligned"
  /\ al.seqs = <<<<"A", "-", "A">>, <<"-", "A", "-">>>>
  /\ al.seqs_[2][1] = Gap
  /\ al.seqs_[1][2] = Endgap
  /\ al.seqs_[3][2] = Endgap

\* C26: for every training-set size N >= 1, every number of blocks B with
\* 1 <= B <= N and every b < B, GetBlock(b, B) returns 0 <= beg <= end <= N
\* and size = end - beg without unsigned wrap-around, and the B blocks are
\* contiguous, disjoint and cover [0, N).
C26_BlocksPartitionTheSet ==
  gb.pc \in {"split", "cut"} =>
    /\ \A n \in DOMAIN gb.blocks :
         /\ 0 <= gb.blocks[n].beg
         /\ gb.blocks[n].beg <= gb.blocks[n].end
         /\ gb.blocks[n].end <= gb.size
         /\ gb.blocks[n].size = gb.blocks[n].end - gb.blocks[n].beg
         /\ gb.blocks[n].beg = (IF n = 1 THEN 0 ELSE gb.blocks[n - 1].end)
    /\ gb.pc = "cut" => gb.blocks[gb.nblocks].end = gb.size

\* the likelihood gradient that df leaves in a struct whose gradient was zero
FreshLikelihoodGradient ==
  [i \in 0 .. (nweights - 1) |->
     RSumTo([k \in Profiles |->
               RSumTo([m \in 0 .. (df.block.size - 1) |->
                         LET ups == GradientUpdates(crf_, df.block, df.mpp, df.mpa,
                                                    k, df.block.beg + m)
                         IN  AddTo(Zero, ups, i, Len(ups))],
                      df.block.size)],
            NumProfiles)]

\* C27: the four outputs of DerivCrfFunc::df (loglike, prior, grad_loglike,
\* grad_prior) depend only on the CRF weights and the block, not on what the
\* struct held before the call: after a call of df on a struct that has been
\* used, they are the values a fresh struct gets.
C27_DfOutputsIgnoreOldContent ==
  (df_pc = "idle" /\ df.ncalls >= 1) =>
    /\ s_io.loglike = PlusAssign(DerivCrfFuncIO.loglike, df.loglike)
    /\ s_io.prior = PlusAssign(DerivCrfFuncIO.prior,
                               RMul(df.block.frac, CalculatePrior(crf_)))
    /\ s_io.grad_loglike = FreshLikelihoodGradient
    /\ s_io.grad_prior = CalculatePriorGradient(df.block, crf_)

\* C30: the result of ForwardAlgorithm does not depend on what the
\* ForwardBackwardMatrices held before: a second run on the same matrices
\* leaves f, e, s and log_likelihood equal to those of the first run, with
\* every row of f summing to 1.
C30_ForwardIgnoresOldContent ==
  (fw.pc = "fw" /\ fw.runs = 2) =>
    /\ fw.m = fw.first
    /\ \A i \in DOMAIN fw.m.f : RSumTo(fw.m.f[i], 2) = One

====
